---- MODULE Spec2Model ----
(***************************************************************************)
(* A model of game.py: the data-driven turn-based game engine.             *)
(*                                                                         *)
(* GameState objects live in a two-slot heap (a live state and a trial     *)
(* clone); the presenter and the evaluator each hold a reference to one    *)
(* slot.  Expressions of a loaded specification document are kept as the   *)
(* trees that ExpressionEvaluator.eval recognises in their strings; every  *)
(* tree below carries its source string in a comment.                      *)
(***************************************************************************)
EXTENDS Integers, Sequences, FiniteSets, TLC

VARIABLES
    game,       \* which specification document was loaded (GamePresenter.spec)
    pc,         \* "new" before setup_game, "running" in a game loop, then "won",
                \* "over" (no current player) or "crashed" (an exception left run)
    heap,       \* slot -> GameState object; only reachable objects are kept
    live,       \* GamePresenter.state: the slot of the live state
    ev,         \* ExpressionEvaluator.state: the slot the evaluator reads
    idCounter,  \* Entity._id_counter
    last,       \* the last input handled and what was returned for it
    walk,       \* the locals of _call_function while it evaluates path_clear
    script      \* the locals is_scripted and moves_to_execute of run_grid_game

vars == <<game, pc, heap, live, ev, idCounter, last, walk, script>>

-----------------------------------------------------------------------------
(* Bounds of the model.                                                    *)

\* longest path (number of positions) typed as one grid move
MaxPathLen == 3
\* largest card number typed in card mode
MaxCardNum == 3
\* largest number of lines of a moves file
MaxScript == 2
\* largest magnitude of the direction given to next_player when it is tried out
MaxDir == 4
\* largest count given to draw_cards and deal_cards when they are tried out
MaxCount == 3
\* largest coordinate of the square grid path_clear is evaluated on
MaxCoord == 2
\* most pieces standing on that grid
MaxBlockers == 2

-----------------------------------------------------------------------------
(* Runtime values: Python objects, tagged by type.                         *)

Null == [t |-> "null"]
BoolV(b) == [t |-> "bool", b |-> b]
IntV(n) == [t |-> "int", n |-> n]
StrV(s) == [t |-> "str", s |-> s]
\* a Python tuple (x, y): a board key, a parsed position
TupV(x, y) == [t |-> "tuple", x |-> x, y |-> y]
\* a Python dict {'x': x, 'y': y}
DictV(x, y) == [t |-> "dict", x |-> x, y |-> y]
\* references to objects of the state held in slot s; a reference stored
\* inside a state is relative to that state and carries the slot "here"
EntV(s, id) == [t |-> "ent", slot |-> s, id |-> id]
ZoneV(s, name) == [t |-> "zone", slot |-> s, name |-> name]
PlayerV(name) == [t |-> "player", name |-> name]
BoardV(s) == [t |-> "board", slot |-> s]
EntitiesV(s) == [t |-> "entities", slot |-> s]
StateV(s) == [t |-> "state", slot |-> s]
ListV(items) == [t |-> "list", items |-> items]

IsRef(v) == v.t \in {"ent", "zone"}
\* a value read out of the state in slot s
Abs(v, s) == IF IsRef(v) THEN [v EXCEPT !.slot = s] ELSE v
\* a value stored into a state
Rel(v) == IF IsRef(v) THEN [v EXCEPT !.slot = "here"] ELSE v

\* Python truthiness, as used by 'if not result', all() and any()
Truthy(v) ==
    CASE v.t = "null" -> FALSE
      [] v.t = "bool" -> v.b
      [] v.t = "int" -> v.n # 0
      [] v.t = "str" -> v.s # ""
      [] v.t = "list" -> v.items # <<>>
      [] OTHER -> TRUE

\* Python ==: Player.__eq__ compares names, Entity and Zone compare by
\* identity, bool is an int, values of different types are unequal
PyEq(a, b) ==
    IF a.t \in {"bool", "int"} /\ b.t \in {"bool", "int"}
    THEN (IF a.t = "bool" THEN (IF a.b THEN 1 ELSE 0) ELSE a.n)
         = (IF b.t = "bool" THEN (IF b.b THEN 1 ELSE 0) ELSE b.n)
    ELSE a = b

IsNum(v) == v.t = "int"

-----------------------------------------------------------------------------
(* Expressions and effects of a specification document.                    *)
(* eval() decides by the shape of the string which of its branches runs;   *)
(* a tree node names that branch.                                          *)

\* 'null', 'true', 'false', quoted strings, numbers
Lit(v) == [k |-> "lit", v |-> v]
\* a bare identifier: context.get(expr)
Id(name) == [k |-> "id", name |-> name]
\* base.p1.p2: _get_property
Prop(base, parts) == [k |-> "prop", base |-> base, parts |-> parts]
\* obj[key]: the indexing branch
Index(obj, key) == [k |-> "index", obj |-> obj, key |-> key]
\* name(args): _parse_args, then _call_function
Call(fn, args) == [k |-> "call", fn |-> fn, args |-> args]

\* set(board[key], e) and set(a.b, e)
SetBoard(key, e) == [k |-> "set", board |-> TRUE, key |-> key, parts |-> <<>>, e |-> e]
SetPath(parts, e) == [k |-> "set", board |-> FALSE, key |-> Lit(Null), parts |-> parts, e |-> e]
\* if(cond, effect)
IfE(c, eff) == [k |-> "if", c |-> c, eff |-> eff]
\* remove_entity(e)
RemoveEntity(e) == [k |-> "remove_entity", e |-> e]
\* move_to_zone(e, z)
MoveToZone(e, z) == [k |-> "move_to_zone", e |-> e, z |-> z]
\* draw_cards(src, dst, n)
DrawCards(src, dst, n) == [k |-> "draw_cards", src |-> src, dst |-> dst, n |-> n]

\* an effect still in its source text; _apply_effect matches it when it runs
TextEffect(text) == [k |-> "text", text |-> text]
\* a text no pattern of _apply_effect matches
NoEffect == [k |-> "none"]

-----------------------------------------------------------------------------
(* Source text.  A text is the sequence of its atoms: the characters       *)
(* ( ) [ ] , . ' and the space each stand alone, a run of other characters *)
(* is one atom.  Every test the code makes on a string (find, rfind,       *)
(* split, startswith, endswith, the regular expressions) looks for these   *)
(* characters only, so it is a test on the atoms.                          *)

RECURSIVE TextOf(_)
\* the string itself
TextOf(atoms) == IF atoms = <<>> THEN "" ELSE Head(atoms) \o TextOf(Tail(atoms))

RECURSIVE Strip(_)
\* str.strip()
Strip(atoms) ==
    IF atoms = <<>> THEN <<>>
    ELSE IF Head(atoms) = " " THEN Strip(Tail(atoms))
    ELSE IF atoms[Len(atoms)] = " " THEN Strip(SubSeq(atoms, 1, Len(atoms) - 1))
    ELSE atoms

\* c in text
Has(atoms, c) == \E i \in 1..Len(atoms) : atoms[i] = c
\* text.find(c), counted from 1: 0 when c is absent
Find(atoms, c) ==
    IF Has(atoms, c) THEN CHOOSE i \in 1..Len(atoms) : atoms[i] = c /\ \A j \in 1..(i - 1) : atoms[j] # c
    ELSE 0
\* text.rfind(c), counted from 1: 0 when c is absent
RFind(atoms, c) ==
    IF Has(atoms, c) THEN CHOOSE i \in 1..Len(atoms) : atoms[i] = c /\ \A j \in (i + 1)..Len(atoms) : atoms[j] # c
    ELSE 0
\* text.startswith("'")
StartsQuoted(atoms) == atoms # <<>> /\ atoms[1] = "'"
\* text.endswith(c)
EndsWith(atoms, c) == atoms # <<>> /\ atoms[Len(atoms)] = c

RECURSIVE SplitDots(_, _)
\* text.split('.'), each piece as a string; current is the piece being read
SplitDots(atoms, current) ==
    IF atoms = <<>> THEN <<TextOf(current)>>
    ELSE IF Head(atoms) = "." THEN <<TextOf(current)>> \o SplitDots(Tail(atoms), <<>>)
    ELSE SplitDots(Tail(atoms), Append(current, Head(atoms)))

\* the texts int() accepts, among those the documents write
Numerals ==
    [a \in {"0", "1", "2", "3", "4", "5", "6", "7", "8", "-1"} |->
        CASE a = "0" -> 0 [] a = "1" -> 1 [] a = "2" -> 2 [] a = "3" -> 3 [] a = "4" -> 4
          [] a = "5" -> 5 [] a = "6" -> 6 [] a = "7" -> 7 [] a = "8" -> 8 [] a = "-1" -> 0 - 1]

RECURSIVE ScanCall(_, _, _, _)
\* the paren_depth loop of eval: the position of the '(' last seen at depth 0
\* and of the first ')' that brings the depth back to 0, if the text ends
\* with ')'; otherwise the loop ends without returning
ScanCall(atoms, i, paren_depth, func_start) ==
    IF i > Len(atoms) THEN [found |-> FALSE, func_start |-> 0, close |-> 0]
    ELSE IF atoms[i] = "("
         THEN ScanCall(atoms, i + 1, paren_depth + 1, IF paren_depth = 0 THEN i ELSE func_start)
    ELSE IF atoms[i] = ")"
         THEN IF paren_depth - 1 = 0 /\ EndsWith(atoms, ")")
              THEN [found |-> TRUE, func_start |-> func_start, close |-> i]
              ELSE ScanCall(atoms, i + 1, paren_depth - 1, func_start)
    ELSE ScanCall(atoms, i + 1, paren_depth, func_start)

RECURSIVE SplitArgs(_, _, _)
\* the loop of _parse_args: the argument texts, cut at the commas of depth 0;
\* a last piece that is blank is dropped
SplitArgs(atoms, depth, current_arg) ==
    IF atoms = <<>> THEN (IF Strip(current_arg) # <<>> THEN <<Strip(current_arg)>> ELSE <<>>)
    ELSE IF Head(atoms) \in {"(", "["}
         THEN SplitArgs(Tail(atoms), depth + 1, Append(current_arg, Head(atoms)))
    ELSE IF Head(atoms) \in {")", "]"}
         THEN SplitArgs(Tail(atoms), depth - 1, Append(current_arg, Head(atoms)))
    ELSE IF Head(atoms) = "," /\ depth = 0
         THEN <<Strip(current_arg)>> \o SplitArgs(Tail(atoms), depth, <<>>)
    ELSE SplitArgs(Tail(atoms), depth, Append(current_arg, Head(atoms)))

RECURSIVE ParseExpr(_)
\* the branch of eval a text takes, and the texts that branch evaluates in turn
ParseExpr(text) ==
    LET expr == Strip(text)
        bracket_start == Find(expr, "[")
        dot_pos == Find(expr, ".")
        scan == ScanCall(expr, 1, 0, 0)
        \* _get_property: split('.', 1), then the rest split at every dot
        property == Prop(ParseExpr(SubSeq(expr, 1, dot_pos - 1)),
                         SplitDots(SubSeq(expr, dot_pos + 1, Len(expr)), <<>>))
    IN  IF /\ Has(expr, "[") /\ Has(expr, "]") /\ ~StartsQuoted(expr)
           /\ ~Has(SubSeq(expr, 1, bracket_start - 1), "(")
        THEN Index(ParseExpr(SubSeq(expr, 1, bracket_start - 1)),
                   ParseExpr(SubSeq(expr, bracket_start + 1, RFind(expr, "]") - 1)))
        ELSE IF Has(expr, "(") /\ dot_pos > 0 /\ dot_pos < Find(expr, "(") THEN property
        ELSE IF Has(expr, "(") /\ scan.found
        THEN LET args_str == SubSeq(expr, scan.func_start + 1, scan.close - 1)
                 args == SplitArgs(args_str, 0, <<>>)
             IN  Call(TextOf(Strip(SubSeq(expr, 1, scan.func_start - 1))),
                      [i \in 1..Len(args) |-> ParseExpr(args[i])])
        ELSE IF Has(expr, ".") /\ ~StartsQuoted(expr) THEN property
        ELSE IF expr = <<"null">> THEN Lit(Null)
        ELSE IF expr = <<"true">> THEN Lit(BoolV(TRUE))
        ELSE IF expr = <<"false">> THEN Lit(BoolV(FALSE))
        ELSE IF StartsQuoted(expr) /\ EndsWith(expr, "'")
        THEN Lit(StrV(TextOf(SubSeq(expr, 2, Len(expr) - 1))))
        ELSE IF Len(expr) = 1 /\ expr[1] \in DOMAIN Numerals THEN Lit(IntV(Numerals[expr[1]]))
        ELSE Id(TextOf(expr))

\* _set_value's reading of its target: board\[(.+)\]$, else the dotted path
TargetOfText(target_expr, e) ==
    IF /\ Len(target_expr) >= 4 /\ target_expr[1] = "board" /\ target_expr[2] = "["
       /\ EndsWith(target_expr, "]")
    THEN SetBoard(ParseExpr(SubSeq(target_expr, 3, Len(target_expr) - 1)), e)
    ELSE SetPath(SplitDots(target_expr, <<>>), e)

\* the commas at which name\((.+),\s*(.+)\)$ can cut a text of n atoms: a
\* group is never empty
Cuts(atoms, lo) == {c \in lo..(Len(atoms) - 2) : atoms[c] = ","}
Largest(S) == CHOOSE c \in S : \A d \in S : d <= c
\* text matches name\( ... \)$
Calls(atoms, name) ==
    Len(atoms) >= 4 /\ atoms[1] = name /\ atoms[2] = "(" /\ EndsWith(atoms, ")")

RECURSIVE EffectOfText(_)
\* the patterns of _apply_effect, tried in its order.  (.+) is greedy: the
\* first group runs to the last comma that leaves the later groups something
EffectOfText(text) ==
    LET effect_expr == Strip(text)
        n == Len(effect_expr)
        cuts == Cuts(effect_expr, 4)
        c == Largest(cuts)
        group1 == Strip(SubSeq(effect_expr, 3, c - 1))
        group2 == Strip(SubSeq(effect_expr, c + 1, n - 1))
        \* draw_cards: the first cut is the last comma that leaves a later cut
        firsts == {c1 \in cuts : Cuts(effect_expr, c1 + 2) # {}}
        c1 == Largest(firsts)
        c2 == Largest(Cuts(effect_expr, c1 + 2))
    IN  IF Calls(effect_expr, "set") /\ cuts # {}
        THEN TargetOfText(group1, ParseExpr(group2))
        ELSE IF Calls(effect_expr, "if") /\ cuts # {}
        THEN IfE(ParseExpr(group1), EffectOfText(group2))
        ELSE IF Calls(effect_expr, "remove_entity")
        THEN RemoveEntity(ParseExpr(SubSeq(effect_expr, 3, n - 1)))
        ELSE IF Calls(effect_expr, "move_to_zone") /\ cuts # {}
        THEN MoveToZone(ParseExpr(group1), ParseExpr(group2))
        ELSE IF Calls(effect_expr, "draw_cards") /\ firsts # {}
        THEN DrawCards(ParseExpr(SubSeq(effect_expr, 3, c1 - 1)),
                       ParseExpr(SubSeq(effect_expr, c1 + 1, c2 - 1)),
                       ParseExpr(SubSeq(effect_expr, c2 + 1, n - 1)))
        ELSE NoEffect

-----------------------------------------------------------------------------
(* The specification documents the model loads (GamePresenter.spec).       *)
(* Grid documents: a one-row board five cells wide, pieces that step to    *)
(* the next cell, jump over a piece and are crowned on the last cell.      *)
(* Card documents: a shedding game with a draw pile, a discard pile and    *)
(* one hand per player.                                                    *)

GridGames == {"line2", "line3", "line3rev", "overlap", "ghost"}
CardGames == {"shed2", "shed3"}
Games == GridGames \cup CardGames

\* players.roles[*].name, in order
Roles(g) ==
    CASE g \in {"line2", "overlap", "ghost"} -> <<"Red", "Black">>
      [] g \in {"line3", "line3rev"} -> <<"Red", "Black", "Blue">>
      [] g = "shed2" -> <<"P1", "P2">>
      [] g = "shed3" -> <<"P1", "P2", "P3">>

\* topology.type is 'discrete' (a grid) or 'zones'
Topology(g) == IF g \in GridGames THEN "grid" ELSE "zones"
\* topology.structure: width and height of the grid
Width(g) == 5
Height(g) == 1

\* topology.zones: name and owner, in document order
ZoneDefs(g) ==
    IF g \in GridGames THEN <<>>
    ELSE <<[name |-> "draw_pile", owner |-> ""],
           [name |-> "discard_pile", owner |-> ""]>>
         \o [i \in 1..Len(Roles(g)) |->
               [name |-> IF i = 1 THEN "hand_1" ELSE IF i = 2 THEN "hand_2" ELSE "hand_3",
                owner |-> Roles(g)[i]]]

\* state_schema.global: variable and initial value
\*   current_player: "player('Red')" / "player('P1')";  turn_direction: -1 / 1
Globals(g) ==
    <<[var |-> "current_player", initial |-> PlayerV(Roles(g)[1])]>>
    \o (CASE g = "line3rev" -> <<[var |-> "turn_direction", initial |-> IntV(-1)]>>
          [] g = "shed3" -> <<[var |-> "turn_direction", initial |-> IntV(1)]>>
          [] OTHER -> <<>>)

\* a location string of a spawn step
GridNodesLoc(x0, y0, x1, y1) == [k |-> "grid_nodes", x0 |-> x0, y0 |-> y0, x1 |-> x1, y1 |-> y1, name |-> ""]
ZoneLoc(name) == [k |-> "zone", x0 |-> 0, y0 |-> 0, x1 |-> 0, y1 |-> 0, name |-> name]

Spawn(schema, owner, attrs, at) ==
    [action |-> "spawn_entity", schema |-> schema, owner |-> owner, attrs |-> attrs,
     at |-> at, from |-> "", to |-> <<>>, count |-> 0]
DealCards(from, to, count) ==
    [action |-> "deal_cards", schema |-> "", owner |-> "", attrs |-> <<>>,
     at |-> <<>>, from |-> from, to |-> to, count |-> count]
MoveCard(from, to, count) ==
    [action |-> "move_card", schema |-> "", owner |-> "", attrs |-> <<>>,
     at |-> <<>>, from |-> from, to |-> <<to>>, count |-> count]

NoAttrs == <<>>
CardAttrs(color, rank) == [color |-> StrV(color), rank |-> StrV(rank)]

\* setup.steps
SetupSteps(g) ==
    CASE g = "line2" ->
           <<Spawn("piece", "Red", NoAttrs, <<GridNodesLoc(0, 0, 0, 0)>>),
             Spawn("piece", "Black", NoAttrs, <<GridNodesLoc(1, 0, 1, 0), GridNodesLoc(3, 0, 3, 0)>>)>>
      [] g = "line3" ->
           <<Spawn("piece", "Red", NoAttrs, <<GridNodesLoc(1, 0, 1, 0)>>),
             Spawn("piece", "Black", NoAttrs, <<GridNodesLoc(3, 0, 3, 0)>>),
             Spawn("piece", "Blue", NoAttrs, <<GridNodesLoc(4, 0, 4, 0)>>)>>
      [] g = "line3rev" ->
           \* the third player has no piece
           <<Spawn("piece", "Red", NoAttrs, <<GridNodesLoc(0, 0, 0, 0)>>),
             Spawn("piece", "Black", NoAttrs, <<GridNodesLoc(2, 0, 2, 0)>>)>>
      [] g = "overlap" ->
           \* the two rectangles share the cell (1,0)
           <<Spawn("piece", "Red", NoAttrs, <<GridNodesLoc(0, 0, 1, 0)>>),
             Spawn("piece", "Black", NoAttrs, <<GridNodesLoc(1, 0, 1, 0), GridNodesLoc(3, 0, 3, 0)>>)>>
      [] g = "ghost" ->
           \* one piece, with a rank
           <<Spawn("piece", "Red", [rank |-> StrV("man")], <<GridNodesLoc(1, 0, 1, 0)>>)>>
      [] g \in CardGames ->
           <<Spawn("card", "", CardAttrs("blue", "1"), <<ZoneLoc("draw_pile")>>),
             Spawn("card", "", CardAttrs("red", "2"), <<ZoneLoc("draw_pile")>>),
             Spawn("card", "", CardAttrs("red", "x"), <<ZoneLoc("draw_pile")>>),
             Spawn("card", "", CardAttrs("blue", "2"), <<ZoneLoc("draw_pile")>>),
             Spawn("card", "", CardAttrs("red", "3"), <<ZoneLoc("draw_pile")>>),
             Spawn("card", "", CardAttrs("blue", "3"), <<ZoneLoc("draw_pile")>>),
             Spawn("card", "", CardAttrs("red", "1"), <<ZoneLoc("draw_pile")>>),
             Spawn("card", "", CardAttrs("blue", "x"), <<ZoneLoc("draw_pile")>>),
             \* a token that starts on a board cell
             Spawn("token", "", NoAttrs, <<GridNodesLoc(0, 0, 0, 0)>>),
             DealCards("draw_pile", [i \in 1..Len(Roles(g)) |-> ZoneDefs(g)[i + 2].name], 2),
             MoveCard("draw_pile", "discard_pile", 1)>>
\* "eq(entity.owner, state.current_player)"
CondOwn == Call("eq", <<Prop(Id("entity"), <<"owner">>), Prop(Id("state"), <<"current_player">>)>>)
\* "eq(board[target], null)"
CondTargetEmpty == Call("eq", <<Index(Id("board"), Id("target")), Lit(Null)>>)
\* "eq(abs(sub(target.x, start.x)), 1)" and "eq(abs(sub(target.x, start.x)), 2)"
CondDistance(n) ==
    Call("eq", <<Call("abs", <<Call("sub", <<Prop(Id("target"), <<"x">>),
                                             Prop(Id("start"), <<"x">>)>>)>>),
                 Lit(IntV(n))>>)
\* "ne(board[mid_pos(start, target)], null)"
CondMidOccupied ==
    Call("ne", <<Index(Id("board"), Call("mid_pos", <<Id("start"), Id("target")>>)), Lit(Null)>>)
\* "gt(entity.rank, 1)"
CondRanked == Call("gt", <<Prop(Id("entity"), <<"rank">>), Lit(IntV(1))>>)
\* "eq(target.x, 4)"
CondLastCell == Call("eq", <<Prop(Id("target"), <<"x">>), Lit(IntV(4))>>)

\* "set(board[start], null)", "set(board[target], entity)", "set(entity.pos, target)"
MoveEffects ==
    <<SetBoard(Id("start"), Lit(Null)),
      SetBoard(Id("target"), Id("entity")),
      SetPath(<<"entity", "pos">>, Id("target"))>>

\* "or(eq(card.color, top_card(discard_pile).color), eq(card.rank, top_card(discard_pile).rank))"
CondCardMatches ==
    Call("or", <<Call("eq", <<Prop(Id("card"), <<"color">>),
                             Prop(Call("top_card", <<Id("discard_pile")>>), <<"color">>)>>),
                 Call("eq", <<Prop(Id("card"), <<"rank">>),
                             Prop(Call("top_card", <<Id("discard_pile")>>), <<"rank">>)>>)>>)

ActionSpec(conditions, effects, chainable, end_turn) ==
    [conditions |-> conditions, effects |-> effects, chainable |-> chainable,
     end_turn |-> end_turn, defined |-> TRUE]
\* what .get(action_name, {}) gives for a name that is not in interactions.list
EmptySpec ==
    [conditions |-> <<>>, effects |-> <<>>, chainable |-> FALSE, end_turn |-> FALSE,
     defined |-> FALSE]

\* the names defined in interactions.list
InteractionNames(g) ==
    IF g = "ghost" THEN {"step", "rush"}
    ELSE IF g \in GridGames THEN {"step", "crown", "jump"}
    ELSE {"play_card", "reverse", "burn", "pocket", "draw_card"}

\* interactions.list[name]
Interaction(g, name) ==
    CASE name = "step" ->
           ActionSpec(<<CondOwn, CondTargetEmpty, CondDistance(1)>>, MoveEffects,
                      g \in {"line3", "line3rev"}, FALSE)
      [] name = "crown" ->
           \* effects: the three of a move, then "set(entity.rank, 'king')"
           ActionSpec(<<CondOwn, CondTargetEmpty, CondDistance(1), CondLastCell>>,
                      MoveEffects \o <<SetPath(<<"entity", "rank">>, Lit(StrV("king")))>>,
                      g \in {"line3", "line3rev"}, FALSE)
      [] name = "jump" ->
           \* effects: "remove_entity(board[mid_pos(start, target)])", then the three of a move
           ActionSpec(<<CondOwn, CondTargetEmpty, CondDistance(2), CondMidOccupied>>,
                      <<RemoveEntity(Index(Id("board"), Call("mid_pos", <<Id("start"), Id("target")>>)))>>
                      \o MoveEffects,
                      g # "line3rev", FALSE)
      [] name = "rush" ->
           ActionSpec(<<CondOwn, CondTargetEmpty, CondDistance(3), CondRanked>>, MoveEffects,
                      FALSE, FALSE)
      [] name = "play_card" ->
           \* effects: "move_to_zone(card, discard_pile)"
           ActionSpec(<<CondCardMatches>>, <<MoveToZone(Id("card"), Id("discard_pile"))>>,
                      FALSE, TRUE)
      [] name = "reverse" ->
           \* conditions: "eq(card.rank, '2')" and the one of play_card;
           \* effects: "move_to_zone(card, discard_pile)", "set(state.turn_direction, -1)"
           ActionSpec(<<Call("eq", <<Prop(Id("card"), <<"rank">>), Lit(StrV("2"))>>),
                        CondCardMatches>>,
                      <<TextEffect(<<"move_to_zone", "(", "card", ",", " ", "discard_pile", ")">>),
                        TextEffect(<<"set", "(", "state", ".", "turn_direction", ",", " ", "-1", ")">>)>>,
                      FALSE, TRUE)
      [] name = "burn" ->
           \* conditions: "eq(card.rank, 'x')";
           \* effects: "if(eq(card.rank, 'x'), remove_entity(card))"
           ActionSpec(<<Call("eq", <<Prop(Id("card"), <<"rank">>), Lit(StrV("x"))>>)>>,
                      <<TextEffect(<<"if", "(", "eq", "(", "card", ".", "rank", ",", " ",
                                     "'", "x", "'", ")", ",", " ",
                                     "remove_entity", "(", "card", ")", ")">>)>>,
                      FALSE, FALSE)
      [] name = "pocket" ->
           \* conditions: "eq(card.color, 'blue')", "eq(count(discard_pile), 1)";
           \* effects: "move_to_zone(state.entities[8], discard_pile)"
           ActionSpec(<<Call("eq", <<Prop(Id("card"), <<"color">>), Lit(StrV("blue"))>>),
                        Call("eq", <<Call("count", <<Id("discard_pile")>>), Lit(IntV(1))>>)>>,
                      <<MoveToZone(Index(Prop(Id("state"), <<"entities">>), Lit(IntV(8))),
                                   Id("discard_pile"))>>,
                      FALSE, FALSE)
      [] name = "draw_card" ->
           \* conditions: "gt(count(draw_pile), 0)"; effects: "draw_cards(draw_pile, hand_zone, 1)"
           ActionSpec(<<Call("gt", <<Call("count", <<Id("draw_pile")>>), Lit(IntV(0))>>)>>,
                      <<DrawCards(Id("draw_pile"), Id("hand_zone"), Lit(IntV(1)))>>,
                      FALSE, TRUE)

\* self.spec['interactions']['list'].get(action_name, {})
GetInteraction(g, name) ==
    IF name \in InteractionNames(g) THEN Interaction(g, name) ELSE EmptySpec

\* game_flow.initial_phase
InitialPhase(g) == IF g = "shed3" THEN "opening" ELSE "main_turn"

PhaseSpec(allowed, auto, next) ==
    [allowed_actions |-> allowed, auto_advance |-> auto, next_phase |-> next]

\* game_flow.phases.get(current_phase, {})
GetPhase(g, phase) ==
    CASE g \in {"line2", "line3rev", "overlap"} /\ phase = "main_turn" ->
           PhaseSpec(<<"crown", "step", "jump">>, FALSE, "")
      [] g = "line3" /\ phase = "main_turn" ->
           PhaseSpec(<<"step", "crown", "jump">>, FALSE, "")
      \* "pass" is listed here and has no entry in interactions.list
      [] g = "ghost" /\ phase = "main_turn" ->
           PhaseSpec(<<"step", "rush", "pass">>, FALSE, "")
      [] g = "shed3" /\ phase = "opening" ->
           PhaseSpec(<<"play_card">>, TRUE, "main_turn")
      \* main_turn names a next phase but does not advance by itself
      [] g = "shed2" /\ phase = "main_turn" ->
           PhaseSpec(<<"play_card", "burn", "pocket", "draw_card">>, FALSE, "scoring")
      [] g = "shed3" /\ phase = "main_turn" ->
           PhaseSpec(<<"reverse", "play_card", "burn", "pocket", "draw_card">>, FALSE, "scoring")
      [] OTHER -> PhaseSpec(<<>>, FALSE, "")
-----------------------------------------------------------------------------
(* Objects of a game state.                                                *)

\* GameState.__init__; attrs holds the attributes setattr adds later
\* (turn_direction, ...), objs the Entity objects the state refers to
EmptyState ==
    [players |-> <<>>, objs |-> <<>>, entities |-> {}, board |-> <<>>,
     zones |-> <<>>, zoneOrder |-> <<>>, current_player |-> Null,
     topology |-> "", current_phase |-> Null, attrs |-> <<>>]

\* Entity.__init__: id from the class counter, rank defaults to 'man', pos None,
\* every attribute but owner and rank copied
NewEntity(id, schema, owner, attributes) ==
    LET base == [id |-> IntV(id), schema |-> StrV(schema), owner |-> owner,
                 rank |-> IF "rank" \in DOMAIN attributes
                          THEN attributes["rank"] ELSE StrV("man"),
                 pos |-> Null]
        more == [a \in DOMAIN attributes \ {"owner", "rank"} |-> attributes[a]]
    IN  more @@ base

\* Zone.__init__
NewZone(owner) == [owner |-> owner, entities |-> <<>>]

\* an evaluation raised a Python exception
Err == [t |-> "error"]

-----------------------------------------------------------------------------
(* ExpressionEvaluator.  H.heap is the heap, H.ev the evaluator's state.   *)

\* getattr(obj, part) when hasattr(obj, part): has tells whether it does
GetAttr(obj, part, H) ==
    CASE obj.t = "ent" ->
           LET o == H.heap[obj.slot].objs[obj.id]
           IN  IF part \in DOMAIN o THEN [has |-> TRUE, v |-> Abs(o[part], obj.slot)]
               ELSE [has |-> FALSE, v |-> Null]
      [] obj.t = "player" ->
           IF part = "name" THEN [has |-> TRUE, v |-> StrV(obj.name)]
           ELSE [has |-> FALSE, v |-> Null]
      [] obj.t = "zone" ->
           LET z == H.heap[obj.slot].zones[obj.name]
           IN  CASE part = "name" -> [has |-> TRUE, v |-> StrV(obj.name)]
                 [] part = "owner" -> [has |-> TRUE, v |-> z.owner]
                 [] part = "entities" ->
                      [has |-> TRUE,
                       v |-> ListV([i \in 1..Len(z.entities) |-> EntV(obj.slot, z.entities[i])])]
                 [] OTHER -> [has |-> FALSE, v |-> Null]
      [] obj.t = "state" ->
           LET st == H.heap[obj.slot]
           IN  CASE part = "current_player" -> [has |-> TRUE, v |-> st.current_player]
                 [] part = "current_phase" -> [has |-> TRUE, v |-> st.current_phase]
                 [] part = "board" -> [has |-> TRUE, v |-> BoardV(obj.slot)]
                 [] part = "entities" -> [has |-> TRUE, v |-> EntitiesV(obj.slot)]
                 [] part \in DOMAIN st.attrs -> [has |-> TRUE, v |-> Abs(st.attrs[part], obj.slot)]
                 [] OTHER -> [has |-> FALSE, v |-> Null]
      [] OTHER -> [has |-> FALSE, v |-> Null]

\* dict.get(key) and list indexing, as the indexing branch of eval does them
IndexGet(obj, key, H) ==
    CASE obj.t = "board" ->
           LET b == H.heap[obj.slot].board
           IN  IF key \in DOMAIN b THEN Abs(b[key], obj.slot) ELSE Null
      [] obj.t = "entities" ->
           IF key.t = "int" /\ key.n \in H.heap[obj.slot].entities
           THEN EntV(obj.slot, key.n) ELSE Null
      [] obj.t = "dict" ->
           IF key = StrV("x") THEN IntV(obj.x)
           ELSE IF key = StrV("y") THEN IntV(obj.y) ELSE Null
      [] obj.t = "list" ->
           IF key.t = "int" /\ key.n >= 0 /\ key.n < Len(obj.items)
           THEN obj.items[key.n + 1] ELSE Null
      [] obj.t = "tuple" ->
           IF key.t = "int" /\ key.n \in {0, 1}
           THEN IntV(IF key.n = 0 THEN obj.x ELSE obj.y) ELSE Null
      [] OTHER -> Null

\* isinstance(x, dict) with 'x' and 'y': the tuple (x['x'], x['y'])
AsTuple(v) == IF v.t = "dict" THEN TupV(v.x, v.y) ELSE v

RECURSIVE WalkParts(_, _, _)
\* the loop of _get_property over the dotted segments
WalkParts(obj, parts, H) ==
    IF parts = <<>> THEN obj
    ELSE IF obj = Null THEN Null
    ELSE LET a == GetAttr(obj, Head(parts), H)
         IN  IF a.has THEN WalkParts(a.v, Tail(parts), H)
             ELSE IF obj.t = "dict" THEN WalkParts(IndexGet(obj, StrV(Head(parts)), H), Tail(parts), H)
             ELSE Null

\* list(self.state.players.values()), as player references
PlayerList(H) == [i \in 1..Len(H.heap[H.ev].players) |-> PlayerV(H.heap[H.ev].players[i])]

IndexOf(seq, x) == CHOOSE i \in 1..Len(seq) : seq[i] = x /\ \A j \in 1..(i - 1) : seq[j] # x

\* an other_player that answers with someone who does not play
OtherPlayerStranger(current, H) == PlayerV("Nobody")

\* other_player: the first player that is not current
OtherPlayer(current, H) ==
    LET ps == PlayerList(H)
        others == {i \in 1..Len(ps) : ps[i] # current}
    IN  IF others = {} THEN Null
        ELSE ps[CHOOSE i \in others : \A j \in others : i <= j]

\* a next_player that stops at the ends of the list instead of wrapping round
NextPlayerClamped(args, H) ==
    LET ps == PlayerList(H)
        current == IF Len(args) > 0 THEN args[1] ELSE H.heap[H.ev].current_player
        direction == IF Len(args) > 1 THEN args[2] ELSE IntV(1)
        to == IndexOf(ps, current) + direction.n
    IN  IF ps = <<>> \/ ~(\E i \in 1..Len(ps) : ps[i] = current) THEN Null
        ELSE IF direction.t # "int" THEN Err
        ELSE ps[IF to < 1 THEN 1 ELSE IF to > Len(ps) THEN Len(ps) ELSE to]

\* next_player: (index + direction) % len over the insertion order
NextPlayer(args, H) ==
    LET ps == PlayerList(H)
        current == IF Len(args) > 0 THEN args[1] ELSE H.heap[H.ev].current_player
        direction == IF Len(args) > 1 THEN args[2] ELSE IntV(1)
    IN  IF ps = <<>> \/ ~(\E i \in 1..Len(ps) : ps[i] = current) THEN Null
        ELSE IF direction.t # "int" THEN Err
        ELSE ps[((IndexOf(ps, current) - 1 + direction.n) % Len(ps)) + 1]

AbsInt(n) == IF n < 0 THEN 0 - n ELSE n

\* the ordering comparisons; with an operand None or missing: False, lte True
Ordering(fn, args) ==
    IF Len(args) = 2 /\ args[1] # Null /\ args[2] # Null
    THEN IF args[1].t = "int" /\ args[2].t = "int"
         THEN BoolV(CASE fn = "gt" -> args[1].n > args[2].n
                      [] fn = "lt" -> args[1].n < args[2].n
                      [] fn = "gte" -> args[1].n >= args[2].n
                      [] fn = "lte" -> args[1].n <= args[2].n)
         ELSE Err
    ELSE BoolV(fn = "lte")

\* sub, add, mod: 0 unless both operands are given
Arith(fn, args) ==
    IF Len(args) = 2 /\ args[1] # Null /\ args[2] # Null
    THEN IF args[1].t = "int" /\ args[2].t = "int"
         THEN CASE fn = "sub" -> IntV(args[1].n - args[2].n)
                [] fn = "add" -> IntV(args[1].n + args[2].n)
                [] fn = "mod" -> IF args[2].n > 0 THEN IntV(args[1].n % args[2].n) ELSE Err
         ELSE Err
    ELSE IntV(0)

\* mid_pos: the floor of the mean of each coordinate
MidPos(args) ==
    IF Len(args) # 2 THEN Err
    ELSE LET a == AsTuple(args[1])
             b == AsTuple(args[2])
         IN  IF a.t = "tuple" /\ b.t = "tuple"
             THEN TupV((a.x + b.x) \div 2, (a.y + b.y) \div 2)
             ELSE Err

\* _call_function, for the builtins the documents call
CallFunction(fn, args, H) ==
    CASE \E i \in 1..Len(args) : args[i] = Err -> Err
      [] fn = "eq" -> BoolV(Len(args) = 2 /\ PyEq(args[1], args[2]))
      [] fn = "ne" -> BoolV(Len(args) = 2 /\ ~PyEq(args[1], args[2]))
      [] fn \in {"gt", "lt", "gte", "lte"} -> Ordering(fn, args)
      [] fn = "and" -> BoolV(\A i \in 1..Len(args) : Truthy(args[i]))
      [] fn = "or" -> BoolV(\E i \in 1..Len(args) : Truthy(args[i]))
      [] fn = "not" -> BoolV(Len(args) = 1 /\ ~Truthy(args[1]))
      [] fn = "abs" ->
           IF Len(args) = 1 /\ args[1] # Null
           THEN (IF args[1].t = "int" THEN IntV(AbsInt(args[1].n)) ELSE Err)
           ELSE IntV(0)
      [] fn \in {"sub", "add", "mod"} -> Arith(fn, args)
      [] fn = "count" ->
           IF Len(args) > 0 /\ args[1].t = "zone"
           THEN IntV(Len(H.heap[args[1].slot].zones[args[1].name].entities))
           ELSE IF Len(args) > 0 /\ args[1].t = "list" THEN IntV(Len(args[1].items))
           ELSE IntV(0)
      [] fn = "zone" ->
           IF Len(args) > 0 /\ args[1].t = "str" /\ args[1].s \in DOMAIN H.heap[H.ev].zones
           THEN ZoneV(H.ev, args[1].s) ELSE Null
      [] fn = "mid_pos" -> MidPos(args)
      [] fn = "other_player" -> IF Len(args) > 0 THEN OtherPlayer(args[1], H) ELSE Err
      [] fn = "next_player" -> NextPlayer(args, H)
      [] fn = "top_card" ->
           IF Len(args) > 0 /\ args[1].t = "zone"
              /\ H.heap[args[1].slot].zones[args[1].name].entities # <<>>
           THEN LET es == H.heap[args[1].slot].zones[args[1].name].entities
                IN  EntV(args[1].slot, es[Len(es)])
           ELSE Null
      [] OTHER -> Null

RECURSIVE Eval(_, _, _)
RECURSIVE EvalArgs(_, _, _)
\* _parse_args: each argument evaluated, left to right
EvalArgs(args, ctx, H) ==
    IF args = <<>> THEN <<>>
    ELSE <<Eval(Head(args), ctx, H)>> \o EvalArgs(Tail(args), ctx, H)

\* eval(expr, context)
Eval(e, ctx, H) ==
    CASE e.k = "lit" -> e.v
      [] e.k = "id" -> IF e.name \in DOMAIN ctx THEN ctx[e.name] ELSE Null
      [] e.k = "index" ->
           LET obj == Eval(e.obj, ctx, H)
           IN  IF obj = Null \/ obj = Err THEN obj
               ELSE LET key == Eval(e.key, ctx, H)
                    IN  IF key = Err THEN Err ELSE IndexGet(obj, AsTuple(key), H)
      [] e.k = "call" ->
           CallFunction(e.fn, EvalArgs(e.args, ctx, H), H)
      [] e.k = "prop" ->
           LET obj == Eval(e.base, ctx, H)
           IN  IF obj = Null \/ obj = Err THEN obj ELSE WalkParts(obj, e.parts, H)
-----------------------------------------------------------------------------
(* Effects: GamePresenter._apply_effect and _set_value.  H.raised records  *)
(* that an exception left the handler; nothing runs after it.              *)

Raise(H) == [H EXCEPT !.raised = TRUE]

\* dict.pop(key, None) / del dict[key]
DictRemove(d, key) == [c \in DOMAIN d \ {key} |-> d[c]] @@ <<>>
\* dict[key] = value
DictPut(d, key, value) == (key :> value) @@ [c \in DOMAIN d \ {key} |-> d[c]]

\* list.remove(x): the first occurrence
ListRemove(seq, x) ==
    LET i == IndexOf(seq, x)
    IN  SubSeq(seq, 1, i - 1) \o SubSeq(seq, i + 1, Len(seq))

\* setattr(obj, name, value)
SetAttr(H, obj, name, value) ==
    CASE obj.t = "ent" ->
           [H EXCEPT !.heap[obj.slot].objs[obj.id] = DictPut(@, name, Rel(value))]
      [] obj.t = "state" ->
           IF name = "current_player" THEN [H EXCEPT !.heap[obj.slot].current_player = value]
           ELSE IF name = "current_phase" THEN [H EXCEPT !.heap[obj.slot].current_phase = value]
           ELSE [H EXCEPT !.heap[obj.slot].attrs = DictPut(@, name, Rel(value))]
      [] obj.t = "zone" /\ name = "owner" ->
           [H EXCEPT !.heap[obj.slot].zones[obj.name].owner = value]
      [] obj.t \in {"tuple", "dict", "int", "str", "bool", "list", "board", "entities"} -> Raise(H)
      [] OTHER -> H

RECURSIVE WalkForSet(_, _, _)
\* the loop of _set_value over parts[1:-1]: getattr(obj, part, None)
WalkForSet(obj, parts, H) ==
    IF parts = <<>> \/ obj = Null THEN obj
    ELSE LET a == GetAttr(obj, Head(parts), H)
         IN  WalkForSet(IF a.has THEN a.v ELSE Null, Tail(parts), H)

\* _set_value(target_expr, value, context)
SetValue(eff, value, ctx, H) ==
    IF eff.board
    THEN LET pos == Eval(eff.key, ctx, H)
         IN  IF pos = Err \/ "board" \notin DOMAIN ctx THEN Raise(H)
             ELSE LET slot == ctx["board"].slot
                  IN  IF value = Null
                      THEN [H EXCEPT !.heap[slot].board = DictRemove(@, AsTuple(pos))]
                      ELSE [H EXCEPT !.heap[slot].board = DictPut(@, AsTuple(pos), Rel(value))]
    ELSE IF Len(eff.parts) < 2 THEN H
    ELSE LET first == IF eff.parts[1] \in DOMAIN ctx THEN ctx[eff.parts[1]] ELSE Null
             obj == WalkForSet(first, SubSeq(eff.parts, 2, Len(eff.parts) - 1), H)
         IN  IF obj = Null THEN H
             ELSE SetAttr(H, obj, eff.parts[Len(eff.parts)], value)

\* a removal that deletes from the entities table only
RemoveFromTableOnly(e, ctx, H) ==
    IF e = Err THEN Raise(H)
    ELSE IF ~(Truthy(e) /\ GetAttr(e, "id", H).has) THEN H
    ELSE [H EXCEPT !.heap[ctx["state"].slot].entities = @ \ {GetAttr(e, "id", H).v.n}]

\* the remove_entity branch of _apply_effect
ApplyRemoveEntity(e, ctx, H) ==
    IF e = Err THEN Raise(H)
    ELSE IF ~(Truthy(e) /\ GetAttr(e, "id", H).has) THEN H
    ELSE LET slot == ctx["state"].slot
             id == GetAttr(e, "id", H).v
             st == H.heap[slot]
             hits == {c \in DOMAIN st.board :
                        /\ st.board[c].t = "ent"
                        /\ GetAttr(Abs(st.board[c], slot), "id", H).v = id}
         IN  [H EXCEPT !.heap[slot].entities = @ \ (IF id.t = "int" THEN {id.n} ELSE {}),
                       !.heap[slot].board = [c \in DOMAIN st.board \ hits |-> st.board[c]] @@ <<>>]

\* the move_to_zone branch of _apply_effect
ApplyMoveToZone(entity, target_zone, H) ==
    IF entity = Err \/ target_zone = Err THEN Raise(H)
    ELSE IF ~(Truthy(entity) /\ target_zone.t = "zone") THEN H
    ELSE IF entity.t # "ent" THEN Raise(H)
    ELSE LET pos == GetAttr(entity, "pos", H).v
             H1 == IF pos.t = "zone"
                      /\ \E i \in 1..Len(H.heap[pos.slot].zones[pos.name].entities) :
                            H.heap[pos.slot].zones[pos.name].entities[i] = entity.id
                   THEN [H EXCEPT !.heap[pos.slot].zones[pos.name].entities =
                                     ListRemove(@, entity.id)]
                   ELSE H
             H2 == [H1 EXCEPT !.heap[target_zone.slot].zones[target_zone.name].entities =
                                 Append(@, entity.id)]
         IN  SetAttr(H2, entity, "pos", target_zone)

RECURSIVE DrawLoopFromTail(_, _, _, _)
\* a draw that takes the last card of the source: pop() for pop(0)
DrawLoopFromTail(n, source, dest, H) ==
    IF n <= 0 \/ H.heap[source.slot].zones[source.name].entities = <<>> THEN H
    ELSE LET es == H.heap[source.slot].zones[source.name].entities
             card == es[Len(es)]
             H1 == [H EXCEPT !.heap[source.slot].zones[source.name].entities =
                                SubSeq(es, 1, Len(es) - 1)]
             H2 == [H1 EXCEPT !.heap[dest.slot].zones[dest.name].entities = Append(@, card)]
         IN  DrawLoopFromTail(n - 1, source, dest, SetAttr(H2, EntV(dest.slot, card), "pos", dest))

RECURSIVE DrawLoopKeepingSource(_, _, _, _)
\* a draw that reads the head of the source without taking it out
DrawLoopKeepingSource(n, source, dest, H) ==
    IF n <= 0 \/ H.heap[source.slot].zones[source.name].entities = <<>> THEN H
    ELSE LET card == Head(H.heap[source.slot].zones[source.name].entities)
             H2 == [H EXCEPT !.heap[dest.slot].zones[dest.name].entities = Append(@, card)]
         IN  DrawLoopKeepingSource(n - 1, source, dest,
                                   SetAttr(H2, EntV(dest.slot, card), "pos", dest))

RECURSIVE DrawLoop(_, _, _, _)
\* n times: card = source.entities.pop(0); dest.entities.append(card); card.pos = dest
DrawLoop(n, source, dest, H) ==
    IF n <= 0 \/ H.heap[source.slot].zones[source.name].entities = <<>> THEN H
    ELSE LET card == Head(H.heap[source.slot].zones[source.name].entities)
             H1 == [H EXCEPT !.heap[source.slot].zones[source.name].entities = Tail(@)]
             H2 == [H1 EXCEPT !.heap[dest.slot].zones[dest.name].entities = Append(@, card)]
         IN  DrawLoop(n - 1, source, dest, SetAttr(H2, EntV(dest.slot, card), "pos", dest))

Min(a, b) == IF a < b THEN a ELSE b

\* the draw_cards branch of _apply_effect
ApplyDrawCards(source, dest, count, H) ==
    IF source = Err \/ dest = Err \/ count = Err THEN Raise(H)
    ELSE IF ~(source.t = "zone" /\ dest.t = "zone") THEN H
    ELSE IF count.t # "int" THEN Raise(H)
    ELSE DrawLoop(Min(count.n, Len(H.heap[source.slot].zones[source.name].entities)),
                  source, dest, H)

\* the builtin draw_card(source, dest, count = 1): the same loop, and the list
\* of the cards drawn as its value.  It changes the state, so it is kept apart
\* from CallFunction, which only computes values; no document calls it
DrawCardBuiltin(args, H) ==
    LET source_zone == IF Len(args) > 0 THEN args[1] ELSE Null
        dest_zone == IF Len(args) > 1 THEN args[2] ELSE Null
        count == IF Len(args) > 2 THEN args[3] ELSE IntV(1)
    IN  IF ~(source_zone.t = "zone" /\ dest_zone.t = "zone") THEN [H |-> H, v |-> ListV(<<>>)]
        ELSE IF count.t # "int" THEN [H |-> Raise(H), v |-> Err]
        ELSE LET es == H.heap[source_zone.slot].zones[source_zone.name].entities
                 n == Min(count.n, Len(es))
             IN  [H |-> DrawLoop(n, source_zone, dest_zone, H),
                  v |-> ListV([i \in 1..n |-> EntV(source_zone.slot, es[i])] @@ <<>>)]

RECURSIVE ApplyEffect(_, _, _)
\* _apply_effect(effect_expr, context)
ApplyEffect(eff, ctx, H) ==
    IF H.raised THEN H
    ELSE CASE eff.k = "set" ->
                LET value == Eval(eff.e, ctx, H)
                IN  IF value = Err THEN Raise(H) ELSE SetValue(eff, value, ctx, H)
           [] eff.k = "if" ->
                LET c == Eval(eff.c, ctx, H)
                IN  IF c = Err THEN Raise(H)
                    ELSE IF Truthy(c) THEN ApplyEffect(eff.eff, ctx, H) ELSE H
           [] eff.k = "remove_entity" -> ApplyRemoveEntity(Eval(eff.e, ctx, H), ctx, H)
           [] eff.k = "move_to_zone" ->
                ApplyMoveToZone(Eval(eff.e, ctx, H), Eval(eff.z, ctx, H), H)
           [] eff.k = "draw_cards" ->
                ApplyDrawCards(Eval(eff.src, ctx, H), Eval(eff.dst, ctx, H),
                               Eval(eff.n, ctx, H), H)
           [] eff.k = "text" -> ApplyEffect(EffectOfText(eff.text), ctx, H)
           [] eff.k = "none" -> H

RECURSIVE ApplyEffects(_, _, _)
\* for effect in effects: self._apply_effect(effect, context)
ApplyEffects(effects, ctx, H) ==
    IF effects = <<>> THEN H
    ELSE ApplyEffects(Tail(effects), ctx, ApplyEffect(Head(effects), ctx, H))
-----------------------------------------------------------------------------
(* setup_game and _execute_setup_step.                                     *)

Slots == {"A", "B"}

\* a heap holding the single state st, read by the evaluator
Single(st) == [heap |-> [s \in {"A"} |-> st], ev |-> "A", raised |-> FALSE]

\* _parse_location_string for grid_nodes: rows outermost, each cell of the rectangle
GridNodes(loc) ==
    LET w == loc.x1 - loc.x0 + 1
        h == loc.y1 - loc.y0 + 1
    IN  IF w <= 0 \/ h <= 0 THEN <<>>
        ELSE [i \in 1..(w * h) |->
                [k |-> "cell", pos |-> TupV(loc.x0 + ((i - 1) % w), loc.y0 + ((i - 1) \div w)),
                 name |-> ""]]

RECURSIVE ParseLocations(_)
\* locations.extend(self._parse_location_string(loc)) for each loc of 'at'
ParseLocations(at) ==
    IF at = <<>> THEN <<>>
    ELSE (IF Head(at).k = "grid_nodes" THEN GridNodes(Head(at))
          ELSE <<[k |-> "zone", pos |-> Null, name |-> Head(at).name]>>)
         \o ParseLocations(Tail(at))

\* self._get_player_by_name(name)
GetPlayerByName(st, name) ==
    IF \E i \in 1..Len(st.players) : st.players[i] = name THEN PlayerV(name) ELSE Null

\* a counter that stands still
SameId(id) == id

\* Entity._id_counter += 1
NextId(id) == id + 1

RECURSIVE SpawnAt(_, _, _, _)
\* the loop of spawn_entity over the locations; S is [st, next] with next the id counter
SpawnAt(locs, step, owner, S) ==
    IF locs = <<>> THEN S
    ELSE LET loc == Head(locs)
             id == S.next
             e == NewEntity(id, step.schema, owner, step.attrs)
             placed ==
                 IF loc.k = "cell"
                 THEN [S.st EXCEPT !.objs = DictPut(@, id, DictPut(e, "pos", loc.pos)),
                                   !.board = DictPut(@, loc.pos, EntV("here", id))]
                 ELSE IF loc.name \in DOMAIN S.st.zones
                 THEN [S.st EXCEPT !.objs = DictPut(@, id, DictPut(e, "pos", ZoneV("here", loc.name))),
                                   !.zones[loc.name].entities = Append(@, id)]
                 ELSE [S.st EXCEPT !.objs = DictPut(@, id, e)]
         IN  SpawnAt(Tail(locs), step, owner,
                     [st |-> [placed EXCEPT !.entities = @ \cup {id}], next |-> NextId(id)])

RECURSIVE DealRound(_, _, _)
\* one round of deal_cards: one card to each destination while the source has cards
DealRound(from, tos, H) ==
    IF tos = <<>> THEN H
    ELSE DealRound(from, Tail(tos), DrawLoop(1, ZoneV("A", from), ZoneV("A", Head(tos)), H))

RECURSIVE DealLoopByZone(_, _, _, _)
\* a deal that gives each destination all its cards before the next one
DealLoopByZone(n, from, tos, H) ==
    IF tos = <<>> THEN H
    ELSE DealLoopByZone(n, from, Tail(tos),
                        DrawLoop(n, ZoneV("A", from), ZoneV("A", Head(tos)), H))

RECURSIVE DealLoop(_, _, _, _)
\* for _ in range(count): for to_zone in active_to_zones: ...
DealLoop(n, from, tos, H) ==
    IF n <= 0 THEN H ELSE DealLoop(n - 1, from, tos, DealRound(from, tos, H))

\* the zones of a list of names that exist
ActiveZones(st, names) == SelectSeq(names, LAMBDA z : z \in DOMAIN st.zones)

\* _execute_setup_step(step)
ExecuteSetupStep(step, S) ==
    CASE step.action = "spawn_entity" ->
           SpawnAt(ParseLocations(step.at), step,
                   IF step.owner = "" THEN Null ELSE GetPlayerByName(S.st, step.owner), S)
      [] step.action = "deal_cards" ->
           IF step.from \in DOMAIN S.st.zones /\ ActiveZones(S.st, step.to) # <<>>
           THEN [S EXCEPT !.st = DealLoop(step.count, step.from, ActiveZones(S.st, step.to),
                                          Single(S.st)).heap["A"]]
           ELSE S
      [] step.action = "move_card" ->
           IF step.from \in DOMAIN S.st.zones /\ step.to[1] \in DOMAIN S.st.zones
           THEN [S EXCEPT !.st =
                    DrawLoop(Min(step.count, Len(S.st.zones[step.from].entities)),
                             ZoneV("A", step.from), ZoneV("A", step.to[1]),
                             Single(S.st)).heap["A"]]
           ELSE S
      [] OTHER -> S

RECURSIVE ExecuteSteps(_, _)
ExecuteSteps(steps, S) ==
    IF steps = <<>> THEN S
    ELSE ExecuteSteps(Tail(steps), ExecuteSetupStep(Head(steps), S))

RECURSIVE MakeZones(_, _)
\* the zones of topology.zones; a zone whose owner is no player is skipped
MakeZones(defs, st) ==
    IF defs = <<>> THEN st
    ELSE LET d == Head(defs)
             owner == IF d.owner = "" THEN Null ELSE GetPlayerByName(st, d.owner)
         IN  IF d.owner # "" /\ owner = Null THEN MakeZones(Tail(defs), st)
             ELSE MakeZones(Tail(defs),
                            [st EXCEPT !.zones = DictPut(@, d.name, NewZone(owner)),
                                       !.zoneOrder = Append(@, d.name)])

RECURSIVE SetGlobals(_, _)
\* setattr(self.state, var_name, value) for each variable of state_schema.global
SetGlobals(gl, st) ==
    IF gl = <<>> THEN st
    ELSE SetGlobals(Tail(gl),
                    SetAttr(Single(st), StateV("A"), Head(gl).var, Head(gl).initial).heap["A"])

\* setup_game(): players, topology, globals, setup steps, initial phase
SetupState(g, st0, next) ==
    LET st1 == [st0 EXCEPT !.players = Roles(g), !.topology = Topology(g)]
        st2 == MakeZones(ZoneDefs(g), st1)
        st3 == SetGlobals(Globals(g), st2)
        S == ExecuteSteps(SetupSteps(g), [st |-> st3, next |-> next])
    IN  [S EXCEPT !.st.current_phase = StrV(InitialPhase(g))]
-----------------------------------------------------------------------------
(* The move pipeline of grid mode.                                         *)

\* game_state.current_phase or 'main_turn'
PhaseName(st) ==
    IF Truthy(st.current_phase) /\ st.current_phase.t = "str" THEN st.current_phase.s
    ELSE "main_turn"

RECURSIVE ConditionsMet(_, _, _)
\* the loop over an action's conditions: "yes", "no" at the first falsy one,
\* "raised" when an evaluation raises
ConditionsMet(conditions, ctx, H) ==
    IF conditions = <<>> THEN "yes"
    ELSE LET result == Eval(Head(conditions), ctx, H)
         IN  IF result = Err THEN "raised"
             ELSE IF ~Truthy(result) THEN "no"
             ELSE ConditionsMet(Tail(conditions), ctx, H)

RECURSIVE FirstLastMatch(_, _, _, _, _)
FirstLastMatch(g, allowed, ctx, H, found) ==
    IF allowed = <<>> THEN [name |-> found, raised |-> FALSE]
    ELSE LET met == ConditionsMet(GetInteraction(g, Head(allowed)).conditions, ctx, H)
         IN  IF met = "raised" THEN [name |-> "", raised |-> TRUE]
             ELSE FirstLastMatch(g, Tail(allowed), ctx, H,
                                 IF met = "yes" THEN Head(allowed) ELSE found)

\* a selection that keeps the last action whose conditions hold
LastMatch(g, allowed, ctx, H) == FirstLastMatch(g, allowed, ctx, H, "")

RECURSIVE FirstMatch(_, _, _, _)
\* for action_name in allowed_actions: return at the first whose conditions all hold;
\* the name "" stands for None
FirstMatch(g, allowed, ctx, H) ==
    IF allowed = <<>> THEN [name |-> "", raised |-> FALSE]
    ELSE LET met == ConditionsMet(GetInteraction(g, Head(allowed)).conditions, ctx, H)
         IN  IF met = "raised" THEN [name |-> "", raised |-> TRUE]
             ELSE IF met = "yes" THEN [name |-> Head(allowed), raised |-> FALSE]
             ELSE FirstMatch(g, Tail(allowed), ctx, H)

\* the context of _find_valid_action_for_segment: start and target as {x, y} dicts
ConditionContext(entity, start_pos, target_pos, slot) ==
    [entity |-> entity,
     start |-> IF start_pos.t = "tuple" THEN DictV(start_pos.x, start_pos.y) ELSE start_pos,
     target |-> IF target_pos.t = "tuple" THEN DictV(target_pos.x, target_pos.y) ELSE target_pos,
     board |-> BoardV(slot),
     state |-> StateV(slot)]

\* the context of _apply_effects_for_segment: start and target as given
EffectContext(entity, start_pos, target_pos, slot) ==
    [entity |-> entity, start |-> start_pos, target |-> target_pos,
     board |-> BoardV(slot), state |-> StateV(slot)]

\* _find_valid_action_for_segment(entity, start_pos, target_pos, game_state)
FindValidActionForSegment(g, entity, start_pos, target_pos, slot, H) ==
    FirstMatch(g, GetPhase(g, PhaseName(H.heap[slot])).allowed_actions,
               ConditionContext(entity, start_pos, target_pos, slot), H)

\* _apply_effects_for_segment(action_name, entity, start_pos, target_pos, game_state)
ApplyEffectsForSegment(g, action_name, entity, start_pos, target_pos, slot, H) ==
    ApplyEffects(GetInteraction(g, action_name).effects,
                 EffectContext(entity, start_pos, target_pos, slot), H)

\* a clone that is the live object itself
AliasSlot(s) == s

\* copy.deepcopy(self.state) makes a new object: the slot it goes to
CloneSlot(s) == IF s = "A" THEN "B" ELSE "A"

\* copy.deepcopy: an equal state whose references stay inside the copy
DeepCopy(st) == st

\* a default direction that stands still
TurnDirectionZero(st) ==
    IF "turn_direction" \in DOMAIN st.attrs THEN st.attrs["turn_direction"] ELSE IntV(0)

\* getattr(self.state, 'turn_direction', 1)
TurnDirection(st) ==
    IF "turn_direction" \in DOMAIN st.attrs THEN st.attrs["turn_direction"] ELSE IntV(1)

\* the turn change that ends process_move_path: other_player for two players,
\* else next_player by turn_direction
TurnChange(H, slot) ==
    LET st == H.heap[slot]
        next == IF Len(st.players) = 2
                THEN CallFunction("other_player", <<st.current_player>>, H)
                ELSE CallFunction("next_player", <<st.current_player, TurnDirection(st)>>, H)
    IN  IF next = Err THEN Raise(H)
        ELSE [H EXCEPT !.heap[slot].current_player = next]

\* what process_move_path returns, and the references it leaves behind
Outcome(H, liveSlot, ok, msg, names) ==
    [heap |-> H.heap, live |-> liveSlot, ev |-> H.ev, raised |-> H.raised,
     ok |-> ok, msg |-> msg, names |-> names]

\* a failure return that does not touch evaluator.state
FailLeavingEvaluator(H, liveSlot, msg, names) == Outcome(H, liveSlot, FALSE, msg, names)

\* self.evaluator.state = self.state; return False, msg
Fail(H, liveSlot, msg, names) ==
    Outcome([H EXCEPT !.ev = liveSlot], liveSlot, FALSE, msg, names)

\* a chain check that also counts a single segment
IsMultiSegmentFromTwo(path) == Len(path) >= 2

\* is_multi_segment = len(path) > 2
IsMultiSegment(path) == Len(path) > 2

\* f"Action '{action_name}' cannot be chained."
CannotBeChained(action_name) == "Action '" \o action_name \o "' cannot be chained."

\* a validation that reads the live state
SegmentStateLive(liveSlot, sim) == liveSlot

\* the state a segment is validated against: sim_state
SegmentState(liveSlot, sim) == sim

RECURSIVE SegmentLoop(_, _, _, _, _, _, _, _)
\* the loop of process_move_path over the segments path[i], path[i+1]
SegmentLoop(g, H, liveSlot, sim, sim_entity, path, i, names) ==
    IF H.raised THEN Outcome(H, liveSlot, FALSE, "", names)
    ELSE IF i > Len(path) - 1
    THEN \* self.state = sim_state; self.evaluator.state = self.state; the turn change
         Outcome(TurnChange([H EXCEPT !.ev = sim], sim), sim, TRUE, "Move successful.", names)
    ELSE LET found == FindValidActionForSegment(g, sim_entity, path[i], path[i + 1],
                                                SegmentState(liveSlot, sim), H)
         IN  IF found.raised THEN Outcome(Raise(H), liveSlot, FALSE, "", names)
             ELSE IF found.name = ""
             THEN Fail(H, liveSlot, "Invalid move sequence.", names)
             ELSE IF IsMultiSegment(path) /\ ~GetInteraction(g, found.name).chainable
             THEN Fail(H, liveSlot, CannotBeChained(found.name), Append(names, found.name))
             ELSE SegmentLoop(g,
                              ApplyEffectsForSegment(g, found.name, sim_entity, path[i],
                                                     path[i + 1], sim, H),
                              liveSlot, sim, sim_entity, path, i + 1,
                              Append(names, found.name))

\* process_move_path(original_entity, path); original_entity is given by its id
ProcessMovePath(g, heap0, liveSlot, id, path) ==
    LET sim == CloneSlot(liveSlot)
        H == [heap |-> (sim :> DeepCopy(heap0[liveSlot])) @@ heap0, ev |-> sim, raised |-> FALSE]
    IN  IF id \notin H.heap[sim].entities
        THEN Outcome(Raise(H), liveSlot, FALSE, "", <<>>)
        ELSE SegmentLoop(g, H, liveSlot, sim, EntV(sim, id), path, 1, <<>>)
-----------------------------------------------------------------------------
(* The action pipeline of card mode.                                       *)

\* 'hand' in zone.name.lower()
IsHandName(name) == name \in {"hand_1", "hand_2", "hand_3"}

\* the first zone, in the order of state.zones, owned by player and named as a hand;
\* "" when there is none
HandZoneOf(st, player) ==
    LET hits == {i \in 1..Len(st.zoneOrder) :
                    /\ PyEq(st.zones[st.zoneOrder[i]].owner, player)
                    /\ IsHandName(st.zoneOrder[i])}
    IN  IF hits = {} THEN ""
        ELSE st.zoneOrder[CHOOSE i \in hits : \A j \in hits : i <= j]

RECURSIVE MentionsCard(_)
RECURSIVE AnyMentionsCard(_)
AnyMentionsCard(es) == es # <<>> /\ (MentionsCard(Head(es)) \/ AnyMentionsCard(Tail(es)))
\* 'card.' in condition: the text of the condition reads a property of card
MentionsCard(e) ==
    CASE e.k = "prop" -> (e.base.k = "id" /\ e.base.name = "card") \/ MentionsCard(e.base)
      [] e.k = "index" -> MentionsCard(e.obj) \/ MentionsCard(e.key)
      [] e.k = "call" -> AnyMentionsCard(e.args)
      [] OTHER -> FALSE

RECURSIVE CardConditionsMet(_, _, _, _)
\* the loop over conditions in process_card_action: with no card selected the
\* conditions that mention 'card.' are skipped
CardConditionsMet(conditions, card, ctx, H) ==
    IF conditions = <<>> THEN "yes"
    ELSE IF card = Null /\ MentionsCard(Head(conditions))
    THEN CardConditionsMet(Tail(conditions), card, ctx, H)
    ELSE LET result == Eval(Head(conditions), ctx, H)
         IN  IF result = Err THEN "raised"
             ELSE IF ~Truthy(result) THEN "no"
             ELSE CardConditionsMet(Tail(conditions), card, ctx, H)

\* the context of process_card_action; every zone is bound by its name
CardContext(st, slot, card, player, hand_zone) ==
    [z \in DOMAIN st.zones |-> ZoneV(slot, z)]
    @@ [entity |-> card, card |-> card, player |-> player, state |-> StateV(slot),
        target |-> Null, hand_zone |-> ZoneV(slot, hand_zone)]

\* what process_card_action returns
CardOutcome(H, ok, msg, names) == [H |-> H, ok |-> ok, msg |-> msg, names |-> names]

\* a phase change that does not look at auto_advance
AdvancePhaseAlways(H, slot, phase_spec) ==
    IF phase_spec.next_phase # ""
    THEN [H EXCEPT !.heap[slot].current_phase = StrV(phase_spec.next_phase)]
    ELSE H

\* if phase_spec.get('auto_advance'): current_phase = next_phase, when one is named
AdvancePhase(H, slot, phase_spec) ==
    IF phase_spec.auto_advance /\ phase_spec.next_phase # ""
    THEN [H EXCEPT !.heap[slot].current_phase = StrV(phase_spec.next_phase)]
    ELSE H

\* an end of turn that always passes the turn forward
EndTurnForward(g, H, slot, action_name) ==
    LET st == H.heap[slot]
        next == CallFunction("next_player", <<st.current_player, IntV(1)>>, H)
    IN  IF GetInteraction(g, action_name).end_turn
        THEN (IF next = Err THEN Raise(H) ELSE [H EXCEPT !.heap[slot].current_player = next])
        ELSE H

\* if action_spec.get('end_turn'): current_player = next_player(current_player,
\* turn_direction), both read now, after the effects
EndTurn(g, H, slot, action_name) ==
    LET st == H.heap[slot]
        next == CallFunction("next_player", <<st.current_player, TurnDirection(st)>>, H)
    IN  IF GetInteraction(g, action_name).end_turn
        THEN (IF next = Err THEN Raise(H) ELSE [H EXCEPT !.heap[slot].current_player = next])
        ELSE H

\* the tail of process_card_action once an action's conditions held and its
\* effects are applied
CardSuccess(g, H, slot, phase_spec, action_name, card_index) ==
    CardOutcome(EndTurn(g, AdvancePhase(H, slot, phase_spec), slot, action_name), TRUE,
                IF card_index = 0 - 1 THEN "Drew a card." ELSE "Played", <<action_name>>)

RECURSIVE CardActionLoopEffectsFirst(_, _, _, _, _, _, _, _)
\* a loop that applies the effects of an action before it tests its conditions
CardActionLoopEffectsFirst(g, H, slot, names, card, ctx, phase_spec, card_index) ==
    IF names = <<>>
    THEN CardOutcome(H, FALSE,
                     IF card_index = 0 - 1 THEN "Cannot draw a card right now."
                     ELSE "Cannot play that card.", <<>>)
    ELSE LET spec == GetInteraction(g, Head(names))
             H1 == ApplyEffects(spec.effects, ctx, H)
         IN  IF spec.defined /\ CardConditionsMet(spec.conditions, card, ctx, H) = "yes"
             THEN CardSuccess(g, H1, slot, phase_spec, Head(names), card_index)
             ELSE CardActionLoopEffectsFirst(g, H1, slot, Tail(names), card, ctx,
                                             phase_spec, card_index)

RECURSIVE CardActionLoop(_, _, _, _, _, _, _, _)
\* for action_name in actions_to_check: the first defined action whose conditions hold
CardActionLoop(g, H, slot, names, card, ctx, phase_spec, card_index) ==
    IF names = <<>>
    THEN CardOutcome(H, FALSE,
                     IF card_index = 0 - 1 THEN "Cannot draw a card right now."
                     ELSE "Cannot play that card.", <<>>)
    ELSE IF ~GetInteraction(g, Head(names)).defined
    THEN CardActionLoop(g, H, slot, Tail(names), card, ctx, phase_spec, card_index)
    ELSE LET spec == GetInteraction(g, Head(names))
             met == CardConditionsMet(spec.conditions, card, ctx, H)
         IN  IF met = "raised" THEN CardOutcome(Raise(H), FALSE, "", <<>>)
             ELSE IF met = "yes"
             THEN LET H1 == ApplyEffects(spec.effects, ctx, H)
                  IN  IF H1.raised THEN CardOutcome(H1, FALSE, "", <<Head(names)>>)
                      ELSE CardSuccess(g, H1, slot, phase_spec, Head(names), card_index)
             ELSE CardActionLoop(g, H, slot, Tail(names), card, ctx, phase_spec, card_index)

\* process_card_action(player, card_index)
ProcessCardAction(g, H, slot, player, card_index) ==
    LET st == H.heap[slot]
        hand_zone == HandZoneOf(st, player)
        phase_spec == GetPhase(g, PhaseName(st))
    IN  IF hand_zone = "" THEN CardOutcome(H, FALSE, "No hand zone found.", <<>>)
        ELSE IF card_index = 0 - 1
        THEN CardActionLoop(g, H, slot, <<"draw_card">>, Null,
                            CardContext(st, slot, Null, player, hand_zone),
                            phase_spec, card_index)
        ELSE IF card_index < 0 \/ card_index >= Len(st.zones[hand_zone].entities)
        THEN CardOutcome(H, FALSE, "Invalid card number.", <<>>)
        ELSE LET card == EntV(slot, st.zones[hand_zone].entities[card_index + 1])
             IN  CardActionLoop(g, H, slot, phase_spec.allowed_actions, card,
                                CardContext(st, slot, card, player, hand_zone),
                                phase_spec, card_index)

-----------------------------------------------------------------------------
(* The program: construction, setup_game, and the two game loops.          *)

\* the entities a state still refers to: unreferenced Entity objects are freed
Referenced(st) ==
    st.entities
    \cup {st.board[c].id : c \in {d \in DOMAIN st.board : st.board[d].t = "ent"}}
    \cup UNION {{st.zones[z].entities[i] : i \in 1..Len(st.zones[z].entities)} : z \in DOMAIN st.zones}

Collect(st) ==
    [st EXCEPT !.objs = [id \in DOMAIN st.objs \cap Referenced(st) |-> st.objs[id]] @@ <<>>]

\* the state objects still referenced by the presenter or the evaluator
Keep(h, slots) == [s \in slots |-> Collect(h[s])] @@ <<>>

\* slots only name objects: the heap with the presenter's state in slot "A" and
\* any other state still referenced in slot "B"
Renamed(h, liveSlot) ==
    [s \in {IF t = liveSlot THEN "A" ELSE "B" : t \in DOMAIN h} |->
        h[IF s = "A" THEN liveSlot ELSE CloneSlot(liveSlot)]] @@ <<>>

\* path_clear is not being evaluated
NoWalk == [status |-> "none"]

\* winner: the player the card loop announced as the winner
NoCall == [op |-> "none", ok |-> FALSE, msg |-> "", names |-> <<>>, winner |-> Null]

\* run_grid_game without a moves file, and after it has left scripted mode:
\* moves_to_execute is never read while is_scripted is False, and is dropped
NoScript == [is_scripted |-> FALSE, moves |-> <<>>]

\* the lines of the moves files tried, as the positions split() and
\* parse_position make of them; (5,0) stands for a position outside the grid:
\*   "A1 B1", "A1 C1", "C1 B1", "A1", "A1 F1"
ScriptLines ==
    {<<TupV(0, 0), TupV(1, 0)>>, <<TupV(0, 0), TupV(2, 0)>>, <<TupV(2, 0), TupV(1, 0)>>,
     <<TupV(0, 0)>>, <<TupV(0, 0), TupV(5, 0)>>}

\* what run_grid_game starts with: no moves file, or the lines of one: an
\* empty file, or any of the lines above followed by lines "A1 C1"
Scripts(g) ==
    {NoScript} \cup
    (IF g = "line2"
     THEN {[is_scripted |-> TRUE, moves |-> m] :
             m \in {<<>>} \cup
                   {<<first>> \o [i \in 1..n |-> <<TupV(0, 0), TupV(2, 0)>>] :
                      first \in ScriptLines, n \in 0..(MaxScript - 1)}}
     ELSE {})

\* GamePresenter.__init__: an empty GameState, the evaluator bound to it
Init ==
    /\ game \in Games
    /\ pc = "new"
    /\ heap = [s \in {"A"} |-> EmptyState]
    /\ live = "A"
    /\ ev = "A"
    /\ idCounter = 0
    /\ last = NoCall
    /\ walk = NoWalk
    /\ script = NoScript

\* run(): setup_game(), then the loop the topology selects
SetupGame ==
    /\ pc = "new"
    /\ LET S == SetupState(game, heap[live], idCounter)
       IN  /\ heap' = [heap EXCEPT ![live] = S.st]
           /\ idCounter' = S.next
    /\ pc' = "running"
    /\ last' = [NoCall EXCEPT !.op = "setup", !.ok = TRUE]
    /\ script' \in Scripts(game)
    /\ UNCHANGED <<game, live, ev, walk>>

\* the positions parse_position accepts: inside the grid
Positions(g) == {TupV(x, y) : x \in 0..(Width(g) - 1), y \in 0..(Height(g) - 1)}

\* the paths a player can type: two or more positions
Paths(g) == UNION {[1..n -> Positions(g)] : n \in 2..MaxPathLen}

\* one pass of the loop of run_grid_game with the input move_input: the next
\* line of the moves file in scripted mode, a path the player types otherwise
GridMove(move_input) ==
    /\ pc = "running"
    /\ heap[live].topology = "grid"
    /\ UNCHANGED <<game, idCounter, walk>>
    /\ LET st == heap[live]
           from_file == script.is_scripted /\ script.moves # <<>>
           \* moves_to_execute.pop(0), or "End of script": is_scripted = False
           read == IF from_file THEN [script EXCEPT !.moves = Tail(@)] ELSE NoScript
           refused(message) ==
               /\ last' = [op |-> "input", ok |-> FALSE, msg |-> message, names |-> <<>>,
                           winner |-> Null]
               /\ script' = read
               /\ UNCHANGED <<pc, heap, live, ev>>
       IN  IF ~Truthy(st.current_player)
           THEN /\ move_input \in Paths(game)
                /\ pc' = "over"
                /\ UNCHANGED <<heap, live, ev, last, script>>
           ELSE /\ IF from_file THEN move_input = Head(script.moves)
                   ELSE move_input \in Paths(game)
                /\ IF Len(move_input) < 2
                   THEN refused("A move requires at least a start and end position.")
                   ELSE IF \E i \in 1..Len(move_input) : move_input[i] \notin Positions(game)
                   THEN refused("Position is out of bounds")
                   ELSE IF ~(move_input[1] \in DOMAIN st.board /\ Truthy(st.board[move_input[1]]))
                   THEN refused("No piece at starting position.")
                   ELSE \E R \in {ProcessMovePath(game, heap, live, st.board[move_input[1]].id,
                                                  move_input)} :
                            /\ heap' = Renamed(Keep(R.heap, {R.live, R.ev}), R.live)
                            /\ live' = "A"
                            /\ ev' = IF R.ev = R.live THEN "A" ELSE "B"
                            /\ pc' = IF R.raised THEN "crashed" ELSE pc
                            \* "raised": the call did not return
                            /\ last' = [op |-> IF R.raised THEN "raised" ELSE "move",
                                        ok |-> R.ok, msg |-> R.msg, names |-> R.names,
                                        winner |-> Null]
                            \* "Aborting script. Switching to interactive mode."
                            /\ script' = IF ~R.raised /\ ~R.ok THEN NoScript ELSE read

\* the card numbers a player can type; 0 draws
CardNums == (0 - 1)..MaxCardNum

\* a test that looks at the hand of whoever is current_player after the call
CurrentHandEmptied(st, hand_zone) ==
    LET now == HandZoneOf(st, st.current_player)
    IN  now # "" /\ st.zones[now].entities = <<>>

\* "if hand_zone and not hand_zone.entities": hand_zone is the zone object
\* found before the call, the hand of the player who acted
HandEmptied(st, hand_zone) == st.zones[hand_zone].entities = <<>>

\* one pass of the loop of run_card_game with the input card_num
CardTurn(card_num) ==
    /\ pc = "running"
    /\ heap[live].topology = "zones"
    /\ UNCHANGED <<game, idCounter, live, walk, script>>
    /\ LET st == heap[live]
           current_player == st.current_player
           hand_zone == HandZoneOf(st, current_player)
           H == [heap |-> heap, ev |-> ev, raised |-> FALSE]
       IN  IF ~Truthy(current_player)
           THEN /\ pc' = "over"
                /\ UNCHANGED <<heap, ev, last>>
           ELSE IF hand_zone = "" \/ st.zones[hand_zone].entities = <<>>
           THEN \* "You have no cards! Skipping turn."
                \E next \in {CallFunction("next_player", <<current_player, TurnDirection(st)>>, H)} :
                    /\ heap' = IF next = Err THEN heap
                               ELSE [heap EXCEPT ![live].current_player = next]
                    /\ pc' = IF next = Err THEN "crashed" ELSE pc
                    /\ last' = [op |-> "skip", ok |-> TRUE, msg |-> "", names |-> <<>>, winner |-> Null]
                    /\ UNCHANGED ev
           ELSE \E R \in {ProcessCardAction(game, H, live, current_player, card_num - 1)} :
                    \E wins \in {~R.H.raised /\ R.ok /\ HandEmptied(R.H.heap[live], hand_zone)} :
                    /\ heap' = Keep(R.H.heap, {live, R.H.ev})
                    /\ ev' = R.H.ev
                    /\ pc' = IF R.H.raised THEN "crashed" ELSE IF wins THEN "won" ELSE pc
                    /\ last' = [op |-> "card", ok |-> R.ok, msg |-> R.msg, names |-> R.names,
                                winner |-> IF wins THEN current_player ELSE Null]

Next ==
    \/ SetupGame
    \/ \E move_input \in Paths(game) \cup ScriptLines : GridMove(move_input)
    \/ \E card_num \in CardNums : CardTurn(card_num)

Spec == Init /\ [][Next]_vars

-----------------------------------------------------------------------------
(* The builtin path_clear, one pass of its while loop at a time.  The      *)
(* evaluator is asked path_clear(a, b) and, once that returned,            *)
(* path_clear(b, a), on a square grid with some pieces on the board.       *)

\* the cells of the square grid
Cells == {TupV(x, y) : x \in 0..MaxCoord, y \in 0..MaxCoord}

\* a state whose board holds one piece on each cell of occupied
SquareState(occupied) ==
    LET id(c) == c.x * (MaxCoord + 1) + c.y
        ids == {id(c) : c \in occupied}
        cell(i) == CHOOSE c \in occupied : id(c) = i
    IN  [EmptyState EXCEPT
            !.players = <<"Red", "Black">>,
            !.current_player = PlayerV("Red"),
            !.topology = "grid",
            !.entities = ids,
            !.objs = [i \in ids |->
                        [NewEntity(i, "piece", PlayerV("Red"), NoAttrs) EXCEPT !.pos = cell(i)]] @@ <<>>,
            !.board = [c \in occupied |-> EntV("here", id(c))] @@ <<>>]

\* 0 if equal, else 1 or -1: the sign of the step from s towards t
Sign(s, t) == IF t = s THEN 0 ELSE IF t > s THEN 1 ELSE 0 - 1

\* a first cell that is the start itself
FirstCellInclusive(start, dx, dy) == start

\* current_x, current_y = start[0] + dx, start[1] + dy
FirstCell(start, dx, dy) == TupV(start.x + dx, start.y + dy)

PathClearInit ==
    /\ game = "square"
    /\ pc = "path_clear"
    /\ \E occupied \in {o \in SUBSET Cells : Cardinality(o) <= MaxBlockers} :
          heap = [s \in {"A"} |-> SquareState(occupied)]
    /\ live = "A"
    /\ ev = "A"
    /\ idCounter = (MaxCoord + 1) * (MaxCoord + 1)
    /\ last = NoCall
    /\ script = NoScript
    /\ \E a \in Cells, b \in Cells :
          walk = [status |-> "call", a |-> a, b |-> b, results |-> <<>>,
                  start |-> a, target |-> b, dx |-> 0, dy |-> 0, current |-> a,
                  seen |-> {}, tick |-> 0]

\* the arguments of the call to make: (a, b) first, then (b, a)
PathClearArgs == IF walk.results = <<>> THEN <<walk.a, walk.b>> ELSE <<walk.b, walk.a>>

\* the call up to the while loop: start, target, dx, dy and the first cell
PathClearEnter ==
    /\ pc = "path_clear" /\ walk.status = "call"
    /\ LET start == AsTuple(PathClearArgs[1])
           target == AsTuple(PathClearArgs[2])
           dx == Sign(start.x, target.x)
           dy == Sign(start.y, target.y)
       IN  walk' = [walk EXCEPT !.status = "loop", !.start = start, !.target = target,
                                !.dx = dx, !.dy = dy, !.current = FirstCell(start, dx, dy)]
    /\ UNCHANGED <<game, pc, heap, live, ev, idCounter, last, script>>

\* what a return leaves: the value, and the next call if one is to be made
Returned(value) ==
    [walk EXCEPT !.results = Append(@, value),
                 !.status = IF Len(walk.results) = 0 THEN "call" ELSE "done"]

\* the loop condition fails, (current_x, current_y) is target: return True
PathClearReachedTarget ==
    /\ pc = "path_clear" /\ walk.status = "loop"
    /\ walk.current = walk.target
    /\ walk' = Returned(TRUE)
    /\ UNCHANGED <<game, pc, heap, live, ev, idCounter, last, script>>

\* board.get(current) is not None: return False
PathClearBlocked ==
    /\ pc = "path_clear" /\ walk.status = "loop"
    /\ walk.current # walk.target
    /\ walk.current \in DOMAIN heap[ev].board
    /\ walk' = [Returned(FALSE) EXCEPT !.seen = @ \cup {walk.current}]
    /\ UNCHANGED <<game, pc, heap, live, ev, idCounter, last, script>>

\* the cell is empty: current_x += dx, current_y += dy, and round the loop
\* again.  Outside the grid no cell holds a piece and the target, which is
\* inside, lies behind, so every further pass is this one: the cursor is
\* then no longer tracked, tick tells one pass from the next
PathClearAdvance ==
    /\ pc = "path_clear" /\ walk.status = "loop"
    /\ walk.current # walk.target
    /\ walk.current \notin DOMAIN heap[ev].board
    /\ walk' = IF walk.current \in Cells
               THEN [walk EXCEPT !.current = TupV(@.x + walk.dx, @.y + walk.dy),
                                 !.seen = @ \cup {walk.current}]
               ELSE [walk EXCEPT !.tick = 1 - @]
    /\ UNCHANGED <<game, pc, heap, live, ev, idCounter, last, script>>

PathClearNext ==
    \/ PathClearEnter
    \/ PathClearReachedTarget
    \/ PathClearBlocked
    \/ PathClearAdvance

\* the interpreter keeps running the loop: a step that can be taken is taken
SpecPathClear == PathClearInit /\ [][PathClearNext]_vars /\ WF_vars(PathClearNext)

-----------------------------------------------------------------------------
(* Properties of process_move_path.                                        *)

\* the grid loop is waiting for a move of the current player
GridRunning == pc = "running" /\ heap[live].topology = "grid"

\* the paths run_grid_game hands to process_move_path in the current state:
\* those that start on a piece
MovePaths == {path \in Paths(game) : path[1] \in DOMAIN heap[live].board}

\* the result of process_move_path for the piece at the start of path
MoveResult(path) ==
    ProcessMovePath(game, heap, live, heap[live].board[path[1]].id, path)

\* a step in which process_move_path was called and returned
MoveReturned == pc = "running" /\ pc' = "running" /\ last'.op = "move"

\* C1: when process_move_path returns failure, every field of the presenter's
\* state (players, entities and their attributes and pos, board, zones,
\* current_player, current_phase, state variables) has the value it had before
\* the call, also when earlier segments had applied their effects to the
\* trial clone.
C1_FailedMoveKeepsLiveState ==
    [][(MoveReturned /\ ~last'.ok) => heap'[live'] = heap[live]]_vars

\* a move failed on its second or a later segment: the first had been applied
C1_FailedAfterAppliedSegment ==
    /\ last.op = "move" /\ ~last.ok
    /\ last.msg = "Invalid move sequence."
    /\ Len(last.names) >= 1

RECURSIVE SequentialSegments(_, _, _, _, _, _)
\* segment after segment, in place: the first-match action against the state
\* the earlier segments produced, then its effects; matched is FALSE when a
\* segment has no action
SequentialSegments(g, H, slot, entity, path, i) ==
    IF i > Len(path) - 1 THEN [H |-> H, matched |-> TRUE]
    ELSE LET found == FindValidActionForSegment(g, entity, path[i], path[i + 1], slot, H)
         IN  IF found.name = "" THEN [H |-> H, matched |-> FALSE]
             ELSE SequentialSegments(g,
                                     ApplyEffectsForSegment(g, found.name, entity, path[i],
                                                            path[i + 1], slot, H),
                                     slot, entity, path, i + 1)

\* the pre-call state after the segments of path, one after the other, and
\* the turn change
SequentialResult(path) ==
    LET H0 == [heap |-> heap, ev |-> live, raised |-> FALSE]
        S == SequentialSegments(game, H0, live, EntV(live, heap[live].board[path[1]].id),
                                path, 1)
    IN  [matched |-> S.matched, st |-> TurnChange(S.H, live).heap[live]]

\* C2: whenever process_move_path succeeds on a path, the state it leaves is
\* the pre-call state after applying, segment by segment in order, the effects
\* of the first-match action chosen against the state the earlier segments
\* produced, followed by the turn change.
C2_SuccessIsSequentialApplication ==
    GridRunning =>
        \A path \in MovePaths : \A R \in {MoveResult(path)} :
            R.ok => \A S \in {SequentialResult(path)} :
                        S.matched /\ R.heap[R.live] = S.st

\* a two-segment move succeeded whose second segment, a step onto the cell the
\* jump of the first segment had cleared, is valid only after the first
C2_SecondSegmentNeededFirst ==
    last.op = "move" /\ last.ok /\ last.names = <<"jump", "step">>

\* the action spec of a name is declared chainable
Chainable(name) == GetInteraction(game, name).chainable

\* C3: on a path of more than 2 points, when the action matched for a segment
\* (the first, a middle one or the last) is not chainable, process_move_path
\* fails with the message that names this action and the live state is
\* unchanged; on a path of exactly 2 points a matched action succeeds whether
\* chainable or not.
C3_NonChainableFailsOnlyInChains ==
    GridRunning =>
        \A path \in MovePaths : \A R \in {MoveResult(path)} :
            \A i \in DOMAIN R.names :
                ~Chainable(R.names[i]) =>
                    IF Len(path) > 2
                    THEN /\ ~R.ok
                         /\ R.msg = "Action '" \o R.names[i] \o "' cannot be chained."
                         /\ R.live = live /\ R.heap[live] = heap[live]
                    ELSE R.ok

\* a chain failed on its second segment: the step of the first is chainable,
\* the jump of the second is not
C3_ChainStoppedAtJump ==
    /\ last.op = "move" /\ ~last.ok
    /\ last.names = <<"step", "jump">>
    /\ last.msg = "Action 'jump' cannot be chained."

\* the player the turn passes to from st: the other of two players, else the
\* one turn_direction (1 when unset) places further in the list of players
TurnSuccessor(st) ==
    LET n == Len(st.players)
        i == CHOOSE k \in 1..n : PlayerV(st.players[k]) = st.current_player
        d == IF "turn_direction" \in DOMAIN st.attrs THEN st.attrs["turn_direction"].n ELSE 1
    IN  IF n = 2 THEN PlayerV(st.players[3 - i])
        ELSE PlayerV(st.players[((i - 1 + d) % n) + 1])

\* C4: a successful process_move_path, of one segment or several, moves
\* current_player one place: to the other player when there are two, else to
\* next_player by turn_direction, taken as 1 when unset; a failed call leaves
\* current_player as it was.
C4_TurnAdvancesOnceOnSuccess ==
    [][MoveReturned =>
          heap'[live'].current_player =
              IF last'.ok THEN TurnSuccessor(heap[live]) ELSE heap[live].current_player]_vars

\* three players, no turn_direction: a two-segment move succeeded and
\* the turn is with the second player
C4_ChainPassedTurnOnce ==
    /\ game = "line3" /\ last.op = "move" /\ last.ok /\ Len(last.names) = 2
    /\ heap[live].current_player = PlayerV("Black")

\* the places in allowed whose action has all its conditions truthy
Qualifying(allowed, ctx, H) ==
    {k \in 1..Len(allowed) :
        ConditionsMet(GetInteraction(game, allowed[k]).conditions, ctx, H) = "yes"}

RECURSIVE EffectsInOrder(_, _, _, _)
\* effects[k], effects[k+1], ... applied one after the other
EffectsInOrder(effects, k, ctx, H) ==
    IF k > Len(effects) THEN H
    ELSE EffectsInOrder(effects, k + 1, ctx, ApplyEffect(effects[k], ctx, H))

\* C5: for every entity and segment, the action selected is the earliest in the
\* phase's allowed_actions among those whose conditions are all truthy, and
\* none when no action qualifies; the effects applied for the segment are those
\* of the selected action and no others, in the order of its effects list.
\* (A search that a condition ends with an exception selects nothing: C21.)
C5_FirstQualifyingActionSelected ==
    GridRunning =>
        \A c \in DOMAIN heap[live].board : \A start_pos, target_pos \in Positions(game) :
            LET H == [heap |-> heap, ev |-> live, raised |-> FALSE]
                entity == EntV(live, heap[live].board[c].id)
                allowed == GetPhase(game, PhaseName(heap[live])).allowed_actions
                Q == Qualifying(allowed, ConditionContext(entity, start_pos, target_pos, live), H)
            IN  \A found \in {FindValidActionForSegment(game, entity, start_pos, target_pos, live, H)} :
                    /\ Q = {} => found.name = ""
                    /\ (Q # {} /\ ~found.raised) =>
                                 /\ found.name = allowed[CHOOSE k \in Q : \A j \in Q : k <= j]
                                 /\ ApplyEffectsForSegment(game, found.name, entity, start_pos,
                                                           target_pos, live, H)
                                    = EffectsInOrder(GetInteraction(game, found.name).effects, 1,
                                                     EffectContext(entity, start_pos, target_pos, live),
                                                     H)

\* crown stands before step in allowed_actions and a move onto the last cell
\* meets the conditions of both: crown was selected and its last effect applied
C5_CrownChosenBeforeStep ==
    /\ game = "line2" /\ last.op = "move" /\ last.ok /\ last.names = <<"crown">>
    /\ \E id \in heap[live].entities : heap[live].objs[id].rank = StrV("king")

\* C6: after process_move_path has returned, by success, by a segment without
\* a matching action or by a non-chainable action in a chain, the state the
\* evaluator is bound to is the presenter's live state.
C6_EvaluatorBoundToLiveState ==
    last.op = "move" => ev = live

\* a chain was refused for a non-chainable step and the evaluator reads the
\* live state
C6_EvaluatorRestoredAfterRefusedChain ==
    /\ last.op = "move" /\ ~last.ok
    /\ last.msg = "Action 'step' cannot be chained."
    /\ ev = live

-----------------------------------------------------------------------------
(* Properties of the game state.                                           *)

\* C7: every occupied board coordinate holds an entity that is in the entities
\* table and whose pos is that coordinate.
C7_BoardCellsHoldTheirEntities ==
    pc # "new" =>
        \A c \in DOMAIN heap[live].board :
            Truthy(heap[live].board[c]) =>
                /\ heap[live].board[c].id \in heap[live].entities
                /\ heap[live].objs[heap[live].board[c].id].pos = c

\* the zones that list the entity id
ZonesListing(st, id) ==
    {z \in DOMAIN st.zones : \E k \in 1..Len(st.zones[z].entities) : st.zones[z].entities[k] = id}

\* C8: every entity of the entities table has a pos that is absent, or a
\* coordinate whose board cell holds that entity, or a zone that lists it.
C8_EntityPosIsWhereItIs ==
    pc # "new" =>
        \A id \in heap[live].entities :
            LET pos == heap[live].objs[id].pos
            IN  \/ pos = Null
                \/ /\ pos.t = "tuple"
                   /\ pos \in DOMAIN heap[live].board
                   /\ heap[live].board[pos] = EntV("here", id)
                \/ /\ pos.t = "zone"
                   /\ pos.name \in ZonesListing(heap[live], id)

\* C9: every entity listed in a zone is in the entities table, has that zone
\* as its pos and is listed in no other zone.
C9_ZoneEntitiesAreRegistered ==
    pc # "new" =>
        \A z \in DOMAIN heap[live].zones : \A k \in 1..Len(heap[live].zones[z].entities) :
            LET id == heap[live].zones[z].entities[k]
            IN  /\ id \in heap[live].entities
                /\ heap[live].objs[id].pos = ZoneV("here", z)
                /\ ZonesListing(heap[live], id) = {z}

\* C10: remove_entity(e) applied to an entity e that is on the board leaves a
\* state in which e's id is no key of the entities table and no board
\* coordinate holds e, with every other entity, every other board cell and all
\* the rest of the state as before.
C10_RemoveEntityFrame ==
    pc = "running" =>
        \A c \in DOMAIN heap[live].board :
            LET st == heap[live]
                id == st.board[c].id
                H == [heap |-> heap, ev |-> live, raised |-> FALSE]
                ctx == EffectContext(EntV(live, id), c, c, live)
            IN  \A H1 \in {ApplyEffect(RemoveEntity(Index(Id("board"), Id("start"))), ctx, H)} :
                    /\ ~H1.raised
                    /\ H1.heap[live].entities = st.entities \ {id}
                    /\ DOMAIN H1.heap[live].board = {d \in DOMAIN st.board : st.board[d].id # id}
                    /\ \A d \in DOMAIN H1.heap[live].board : H1.heap[live].board[d] = st.board[d]
                    /\ H1.heap = [heap EXCEPT ![live].entities = H1.heap[live].entities,
                                              ![live].board = H1.heap[live].board]

\* a jump removed the piece it passed over: two of the three pieces are left
C10_JumpRemovedAPiece ==
    /\ last.op = "move" /\ last.ok /\ last.names = <<"jump">>
    /\ Cardinality(heap[live].entities) = 2
    /\ Cardinality(DOMAIN heap[live].board) = 2

-----------------------------------------------------------------------------
(* Properties of the effects.                                              *)

\* the card loop is waiting for the input of the current player
CardRunning == pc = "running" /\ heap[live].topology = "zones"

\* C11: after move_to_zone(e, z) the entity e is the last element of z's
\* list, e.pos is z, no other zone lists e and no board coordinate holds e,
\* wherever e was before: in a zone, on the board or nowhere.
C11_MoveToZonePostcondition ==
    CardRunning =>
        \A id \in heap[live].entities : \A z \in DOMAIN heap[live].zones :
            LET H == [heap |-> heap, ev |-> live, raised |-> FALSE]
                ctx == [entity |-> EntV(live, id), target_zone |-> ZoneV(live, z),
                        state |-> StateV(live)]
            IN  \A H1 \in {ApplyEffect(MoveToZone(Id("entity"), Id("target_zone")), ctx, H)} :
                    LET st == H1.heap[live]
                    IN  /\ st.zones[z].entities # <<>>
                        /\ st.zones[z].entities[Len(st.zones[z].entities)] = id
                        /\ st.objs[id].pos = ZoneV("here", z)
                        /\ ZonesListing(st, id) = {z}
                        /\ \A c \in DOMAIN st.board : st.board[c].id # id

\* the contexts process_card_action would build now: one for each card in the
\* hand of the current player
HandContexts ==
    LET st == heap[live]
        hand_zone == HandZoneOf(st, st.current_player)
    IN  IF hand_zone = "" THEN {}
        ELSE {CardContext(st, live, EntV(live, st.zones[hand_zone].entities[i]),
                          st.current_player, hand_zone) :
                i \in 1..Len(st.zones[hand_zone].entities)}

\* the text "if(cond, effect)"
IfText(cond, effect) == <<"if", "(">> \o cond \o <<",", " ">> \o effect \o <<")">>
\* "true", "false", "eq(card.rank, 'x')", "eq(count(discard_pile), 1)"
CondTexts ==
    {<<"true">>, <<"false">>,
     <<"eq", "(", "card", ".", "rank", ",", " ", "'", "x", "'", ")">>,
     <<"eq", "(", "count", "(", "discard_pile", ")", ",", " ", "1", ")">>}
\* one nested effect of each kind
NestedEffectTexts ==
    {<<"set", "(", "state", ".", "turn_direction", ",", " ", "-1", ")">>,
     <<"move_to_zone", "(", "card", ",", " ", "discard_pile", ")">>,
     <<"draw_cards", "(", "draw_pile", ",", " ", "hand_zone", ",", " ", "1", ")">>,
     <<"remove_entity", "(", "card", ")">>}

\* C12: if(cond, effect) does what effect alone does when cond evaluates
\* truthy and nothing otherwise, for a nested effect of every kind (set,
\* move_to_zone, draw_cards, remove_entity) and for conditions that are calls
\* with several arguments.
C12_IfAppliesNestedEffect ==
    CardRunning =>
        \A ctx \in HandContexts : \A cond \in CondTexts : \A effect \in NestedEffectTexts :
            LET H == [heap |-> heap, ev |-> live, raised |-> FALSE]
            IN  ApplyEffect(TextEffect(IfText(cond, effect)), ctx, H)
                = IF Truthy(Eval(ParseExpr(cond), ctx, H))
                  THEN ApplyEffect(TextEffect(effect), ctx, H)
                  ELSE H

\* the text "set(lvalue, expr)"
SetText(lvalue, expr) == <<"set", "(">> \o lvalue \o <<",", " ">> \o expr \o <<")">>
\* "board[target]", "entity.pos", "entity.rank", "state.current_player"
LvalueTexts ==
    {<<"board", "[", "target", "]">>, <<"entity", ".", "pos">>, <<"entity", ".", "rank">>,
     <<"state", ".", "current_player">>}
\* "target", "null", "'king'", "mid_pos(start, target)",
\* "next_player(state.current_player, 1)"
ExprTexts ==
    {<<"target">>, <<"null">>, <<"'", "king", "'">>,
     <<"mid_pos", "(", "start", ",", " ", "target", ")">>,
     <<"next_player", "(", "state", ".", "current_player", ",", " ", "1", ")">>}

\* C13: set(lvalue, expr) assigns the value of expr to lvalue: it leaves the
\* state _set_value gives for that lvalue and that value, for every piece on
\* the board, every target cell and expressions that include calls with two
\* arguments.
C13_SetAssignsValueOfExpr ==
    GridRunning =>
        \A c \in DOMAIN heap[live].board : \A target \in Positions(game) :
            \A lvalue \in LvalueTexts : \A expr \in ExprTexts :
                LET H == [heap |-> heap, ev |-> live, raised |-> FALSE]
                    ctx == EffectContext(EntV(live, heap[live].board[c].id), c, target, live)
                    value == Eval(ParseExpr(expr), ctx, H)
                IN  ApplyEffect(TextEffect(SetText(lvalue, expr)), ctx, H)
                    = SetValue(TargetOfText(lvalue, Lit(value)), value, ctx, H)

-----------------------------------------------------------------------------
(* Properties of the card loop.                                            *)

\* what process_card_action returns now for the input card_num of the
\* current player
CardResult(card_num) ==
    ProcessCardAction(game, [heap |-> heap, ev |-> ev, raised |-> FALSE], live,
                      heap[live].current_player, card_num - 1)

\* the current player has a hand with a card in it: run_card_game asks for an
\* input and calls process_card_action
CardAsked ==
    /\ CardRunning
    /\ Truthy(heap[live].current_player)
    /\ HandZoneOf(heap[live], heap[live].current_player) # ""
    /\ heap[live].zones[HandZoneOf(heap[live], heap[live].current_player)].entities # <<>>

\* C14: a call of process_card_action applies the effects of at most one
\* action, and that action is in the allowed_actions of the phase the call
\* started in, for a card number and for the draw input 0 alike.
C14_AppliedActionIsAllowed ==
    CardAsked =>
        \A card_num \in CardNums : \A R \in {CardResult(card_num)} :
            LET allowed == GetPhase(game, PhaseName(heap[live])).allowed_actions
            IN  /\ Len(R.names) <= 1
                /\ \A i \in 1..Len(R.names) : \E j \in 1..Len(allowed) : allowed[j] = R.names[i]
                /\ R.names = <<>> => R.H.heap = heap

\* the player direction places after current in the order of state.players
PlayerAfter(st, direction) ==
    LET n == Len(st.players)
        i == CHOOSE k \in 1..n : PlayerV(st.players[k]) = st.current_player
    IN  PlayerV(st.players[((i - 1 + direction) % n) + 1])

\* getattr(state, 'turn_direction', 1)
DirectionOf(st) ==
    IF "turn_direction" \in DOMAIN st.attrs THEN st.attrs["turn_direction"].n ELSE 1

\* C15: after a successful process_card_action the current player is
\* next_player(current, turn_direction), another player, when the matched
\* action declares end_turn, with turn_direction as the action's effects left
\* it; without end_turn the current player is the one who acted.
C15_TurnPassesIffEndTurn ==
    CardAsked =>
        \A card_num \in CardNums : \A R \in {CardResult(card_num)} :
            R.ok =>
                LET before == heap[live]
                    after == R.H.heap[live]
                IN  IF GetInteraction(game, R.names[1]).end_turn
                    THEN /\ after.current_player = PlayerAfter(before, DirectionOf(after))
                         /\ after.current_player # before.current_player
                    ELSE after.current_player = before.current_player

\* reverse was played with three players and the game goes on: the turn went
\* to the player before the one who acted
C15_ReversePassedTurnBackwards ==
    /\ game = "shed3" /\ pc = "running"
    /\ last.op = "card" /\ last.ok /\ last.names = <<"reverse">>
    /\ DirectionOf(heap[live]) = 0 - 1

\* C16: in the card loop current_phase changes only with a successful
\* process_card_action in a phase flagged auto_advance that names a
\* next_phase, and then it becomes that next_phase; after a failed action, a
\* successful action in a phase without auto_advance and a skipped turn it is
\* what it was.
C16_PhaseChangesOnlyByAutoAdvance ==
    [][CardRunning =>
          LET phase_spec == GetPhase(game, PhaseName(heap[live]))
          IN  heap'[live'].current_phase =
                  IF /\ CardAsked /\ last'.ok
                     /\ phase_spec.auto_advance /\ phase_spec.next_phase # ""
                  THEN StrV(phase_spec.next_phase)
                  ELSE heap[live].current_phase]_vars

\* the opening phase of shed3 was left for main_turn, and an action succeeded
\* in main_turn, which names a next phase without auto_advance
C16_OpeningAdvancedMainTurnStayed ==
    /\ game = "shed3" /\ heap[live].current_phase = StrV("main_turn")
    /\ last.op = "card" /\ last.ok /\ last.names = <<"burn">>

\* the players process_card_action can be called for: those of the game and
\* one who owns no zone
Callers == {PlayerV(heap[live].players[i]) : i \in 1..Len(heap[live].players)} \cup {PlayerV("Nobody")}

\* C17: when process_card_action returns failure (no hand zone, a card index
\* out of range, no action whose conditions all hold) no effect was applied:
\* zones, entities, current_player, current_phase and the rest of the state
\* are as before the call, and the message is one of the four of a failure.
C17_FailedCardActionKeepsState ==
    CardRunning =>
        \A player \in Callers : \A card_num \in CardNums :
            \A R \in {ProcessCardAction(game, [heap |-> heap, ev |-> ev, raised |-> FALSE],
                                        live, player, card_num - 1)} :
                ~R.ok =>
                    /\ R.H = [heap |-> heap, ev |-> ev, raised |-> FALSE]
                    /\ R.names = <<>>
                    /\ R.msg \in {"No hand zone found.", "Invalid card number.",
                                  "Cannot draw a card right now.", "Cannot play that card."}

\* a card was refused although its hand holds a card another action could
\* take, and a draw was refused: both kinds of failure were returned
C17_CardRefused ==
    /\ CardAsked
    /\ last.op = "card" /\ ~last.ok /\ last.msg = "Cannot play that card."
    /\ \E card_num \in CardNums : CardResult(card_num).msg = "Cannot draw a card right now."

\* the hand of player in state st
HandOf(st, player) == st.zones[HandZoneOf(st, player)].entities

\* C18: the card loop ends with a winner exactly in the step of a successful
\* action that leaves the hand of the player who acted empty; the winner
\* announced is that player, whoever is current_player by then; nothing is
\* processed once a winner is declared.
C18_WinnerIsActorWithEmptyHand ==
    [][/\ pc # "won"
       /\ pc' = "won" <=> /\ CardAsked /\ last'.op = "card" /\ last'.ok
                          /\ HandOf(heap'[live'], heap[live].current_player) = <<>>
       /\ pc' = "won" => /\ last'.winner = heap[live].current_player
                         /\ HandOf(heap'[live'], last'.winner) = <<>>
       /\ pc' # "won" => last'.winner = Null]_vars

\* a player won with an action that ended the turn: the winner is no longer
\* current_player, whose own hand is not empty
C18_WonAfterTurnPassed ==
    /\ pc = "won"
    /\ last.winner # heap[live].current_player
    /\ HandOf(heap[live], last.winner) = <<>>
    /\ HandOf(heap[live], heap[live].current_player) # <<>>

-----------------------------------------------------------------------------
(* Properties of path_clear.                                               *)

\* a and b lie on a common row, column or diagonal
Collinear(a, b) ==
    a.x = b.x \/ a.y = b.y \/ AbsInt(a.x - b.x) = AbsInt(a.y - b.y)

\* the cells strictly between a and b, for a and b on a common line
Between(a, b) ==
    {c \in Cells : /\ c # a /\ c # b
                   /\ Collinear(a, c) /\ Collinear(c, b)
                   /\ Sign(a.x, c.x) = Sign(c.x, b.x) /\ Sign(a.x, c.x) = Sign(a.x, b.x)
                   /\ Sign(a.y, c.y) = Sign(c.y, b.y) /\ Sign(a.y, c.y) = Sign(a.y, b.y)}

\* C19: path_clear(a, b) terminates for every a and b (here: both calls
\* return), and what it returns for a and b on no common row, column or
\* diagonal is false.
C19_PathClearTerminates ==
    /\ <>(walk.status = "done")
    /\ [](~Collinear(walk.a, walk.b) => \A i \in 1..Len(walk.results) : ~walk.results[i])

\* C20: for a and b on a common row, column or diagonal path_clear(a, b) is
\* true exactly when every cell strictly between a and b is empty, whatever
\* stands on a and b, which are never looked up; path_clear(b, a) returns
\* the same.
C20_PathClearOnALine ==
    (pc = "path_clear" /\ Collinear(walk.a, walk.b)) =>
        /\ walk.seen \subseteq Between(walk.a, walk.b)
        /\ \A i \in 1..Len(walk.results) :
              walk.results[i] <=> \A c \in Between(walk.a, walk.b) : c \notin DOMAIN heap[ev].board
        /\ walk.status = "done" => walk.results[1] = walk.results[2]

\* both calls returned true for two occupied cells two apart on a diagonal
C20_ClearBetweenOccupiedEnds ==
    /\ pc = "path_clear" /\ walk.status = "done"
    /\ walk.a = TupV(0, 0) /\ walk.b = TupV(2, 2)
    /\ DOMAIN heap[ev].board = {walk.a, walk.b}
    /\ walk.results = <<TRUE, TRUE>>

-----------------------------------------------------------------------------
(* Further properties of process_move_path.                                *)

\* C24: a multi-segment path that process_move_path accepts has all its
\* segments resolved to one and the same action.
C24_ChainUsesOneAction ==
    (last.op = "move" /\ last.ok) =>
        \A i \in 1..Len(last.names) : last.names[i] = last.names[1]

-----------------------------------------------------------------------------
(* Properties of entities and players.                                     *)

\* the ids of the Entity objects of any state object
IdsIn(h) == UNION {DOMAIN h[s].objs : s \in DOMAIN h}

\* C22: entity ids are unique and handed out in increasing order: the counter
\* never decreases, every entity carries the id it is filed under, below the
\* counter, an entity that appears has an id no earlier entity had, setup
\* gives each entity it creates an id of its own, and the state a move
\* commits holds the entities of the state before, under the same ids.
C22_EntityIdsUniqueAndIncreasing ==
    [][/\ idCounter' >= idCounter
       /\ \A s \in DOMAIN heap' : \A k \in DOMAIN heap'[s].objs :
             heap'[s].objs[k].id = IntV(k) /\ k < idCounter'
       /\ \A k \in IdsIn(heap') \ IdsIn(heap) : k >= idCounter
       /\ pc = "new" => /\ DOMAIN heap'[live'].objs = 0..(idCounter' - 1)
                        /\ heap'[live'].entities = 0..(idCounter' - 1)
       /\ pc = "running" =>
             \A k \in heap'[live'].entities :
                 /\ k \in heap[live].entities
                 /\ heap'[live'].objs[k].schema = heap[live].objs[k].schema
                 /\ heap'[live'].objs[k].owner = heap[live].objs[k].owner]_vars

\* a jump removed entity 0 and committed the clone: the entities left have
\* the ids they were created with, and the counter still stands after them
C22_IdsKeptAcrossCommitAndRemoval ==
    /\ game = "line3" /\ last.op = "move" /\ last.ok
    /\ heap[live].entities = {1, 2}
    /\ idCounter = 3
    /\ \A k \in {1, 2} : heap[live].objs[k].id = IntV(k)

\* C23: in every state of a game current_player is unset or one of the
\* players of the live state.
C23_CurrentPlayerIsAPlayer ==
    pc # "new" =>
        \/ heap[live].current_player = Null
        \/ \E i \in 1..Len(heap[live].players) :
              heap[live].current_player = PlayerV(heap[live].players[i])

\* with two players the turn came back to the first after two committed moves
C23_TurnCameBackAfterCommits ==
    /\ game = "line2" /\ last.op = "move" /\ last.ok
    /\ heap[live].current_player = PlayerV("Red")
    /\ Len(heap[live].players) = 2

-----------------------------------------------------------------------------
(* Properties of drawing and dealing.                                      *)

\* C25: draw_cards(src, dst, n), for two zones and a count n >= 0, moves the
\* first min(n, size of src) entities of src, in their order, to the tail of
\* dst and sets the pos of each to dst; the rest of src, the previous
\* entities of dst and everything else stay as they were.  The builtin
\* draw_card does the same and returns the moved entities in that order.
C25_DrawMovesHeadToTail ==
    CardRunning =>
        \A src \in DOMAIN heap[live].zones : \A dst \in DOMAIN heap[live].zones \ {src} :
            \A n \in 0..MaxCount :
                LET st == heap[live]
                    H == [heap |-> heap, ev |-> live, raised |-> FALSE]
                    ctx == [src |-> ZoneV(live, src), dst |-> ZoneV(live, dst),
                            state |-> StateV(live)]
                    S == st.zones[src].entities
                    k == Min(n, Len(S))
                    moved == SubSeq(S, 1, k)
                    expected ==
                        [st EXCEPT
                            !.zones[src].entities = SubSeq(S, k + 1, Len(S)),
                            !.zones[dst].entities = @ \o moved,
                            !.objs = [id \in DOMAIN st.objs |->
                                        IF \E i \in 1..k : moved[i] = id
                                        THEN [st.objs[id] EXCEPT !.pos = ZoneV("here", dst)]
                                        ELSE st.objs[id]]]
                IN  /\ ApplyEffect(DrawCards(Id("src"), Id("dst"), Lit(IntV(n))), ctx, H)
                       = [H EXCEPT !.heap[live] = expected]
                    /\ DrawCardBuiltin(<<ZoneV(live, src), ZoneV(live, dst), IntV(n)>>, H)
                       = [H |-> [H EXCEPT !.heap[live] = expected],
                          v |-> ListV([i \in 1..k |-> EntV(live, moved[i])])]

\* the draw_card action took the last card of the draw pile into a hand that
\* then holds three cards
C25_DrewLastCardOfPile ==
    /\ CardRunning
    /\ last.op = "card" /\ last.ok /\ last.names = <<"draw_card">>
    /\ heap[live].zones["draw_pile"].entities = <<>>
    /\ \E z \in DOMAIN heap[live].zones : IsHandName(z) /\ Len(heap[live].zones[z].entities) = 3

\* the lists of one to three different destinations of a deal from a zone:
\* hands and the discard pile
DealTargets(st, from) ==
    LET dests == {z \in DOMAIN st.zones : IsHandName(z) \/ z = "discard_pile"} \ {from}
    IN  UNION {{tos \in [1..m -> dests] : \A i, j \in 1..m : tos[i] = tos[j] => i = j} :
                m \in 1..3}

\* the cards the i-th of m destinations gets when the first T cards of S are
\* dealt round-robin
DealtTo(S, T, m, i) ==
    [n \in 1..(IF T >= i THEN (T - i) \div m + 1 ELSE 0) |-> S[(n - 1) * m + i]]

\* C26: deal_cards with count k and destinations t1..tm takes the first
\* min(k*m, size) cards of the source; the j-th of them goes to the tail of
\* t((j-1) mod m + 1) and gets that zone as pos; nothing else changes.  So
\* with at least k*m cards each destination receives k, and otherwise a
\* destination earlier in the list receives as many as a later one or one more.
C26_DealIsRoundRobin ==
    CardRunning =>
        \A from \in DOMAIN heap[live].zones : \A tos \in DealTargets(heap[live], from) :
            \A k \in 0..MaxCount :
                LET st == heap[live]
                    m == Len(tos)
                    S == st.zones[from].entities
                    T == Min(k * m, Len(S))
                    to_index(z) == CHOOSE i \in 1..m : tos[i] = z
                    expected ==
                        [st EXCEPT
                            !.zones = [z \in DOMAIN st.zones |->
                                IF z = from
                                THEN [st.zones[z] EXCEPT !.entities = SubSeq(S, T + 1, Len(S))]
                                ELSE IF \E i \in 1..m : tos[i] = z
                                THEN [st.zones[z] EXCEPT
                                        !.entities = @ \o DealtTo(S, T, m, to_index(z))]
                                ELSE st.zones[z]],
                            !.objs = [id \in DOMAIN st.objs |->
                                IF \E j \in 1..T : S[j] = id
                                THEN [st.objs[id] EXCEPT !.pos =
                                        ZoneV("here",
                                              tos[(((CHOOSE j \in 1..T : S[j] = id) - 1) % m) + 1])]
                                ELSE st.objs[id]]]
                    received(i) == Len(DealtTo(S, T, m, i))
                IN  /\ ExecuteSetupStep(DealCards(from, tos, k), [st |-> st, next |-> idCounter])
                       = [st |-> expected, next |-> idCounter]
                    /\ Len(S) >= k * m => \A i \in 1..m : received(i) = k
                    /\ \A i, j \in 1..m : i < j => received(i) - received(j) \in {0, 1}

\* setup of the three-player game dealt two cards to each hand in turn
C26_SetupDealtTwoEach ==
    /\ CardRunning /\ game = "shed3" /\ last.op = "setup"
    /\ heap[live].zones["hand_1"].entities = <<0, 3>>
    /\ heap[live].zones["hand_2"].entities = <<1, 4>>
    /\ heap[live].zones["hand_3"].entities = <<2, 5>>

-----------------------------------------------------------------------------
(* Properties of next_player and other_player.                             *)

RECURSIVE Rotate(_, _, _)
\* the index reached from i in a ring of N by d single steps, forwards for a
\* positive d and backwards for a negative one
Rotate(i, d, N) ==
    IF d = 0 THEN i
    ELSE IF d > 0 THEN Rotate(IF i = N THEN 1 ELSE i + 1, d - 1, N)
    ELSE Rotate(IF i = 1 THEN N ELSE i - 1, d + 1, N)

\* next_player(p, dir) and other_player(p) as expressions see them
NextOf(p, dir, H) ==
    Eval(Call("next_player", <<Id("p"), Lit(IntV(dir))>>), [p |-> p], H)
OtherOf(p, H) == Eval(Call("other_player", <<Id("p")>>), [p |-> p], H)

\* C27: next_player(p, dir) is the player dir places after p round the ring
\* of the players' insertion order, for every dir of either sign and of a
\* magnitude beyond the number of players: N advances by 1 come back to p,
\* and so does an advance by dir followed by one by -dir.  other_player(p)
\* is the first player in insertion order that differs from p.
C27_NextPlayerIsModular ==
    pc = "running" =>
        LET H == [heap |-> heap, ev |-> live, raised |-> FALSE]
            ps == PlayerList(H)
            N == Len(ps)
        IN  \A i \in 1..N :
                /\ \A dir \in (0 - MaxDir)..MaxDir :
                      /\ NextOf(ps[i], dir, H) = ps[Rotate(i, dir, N)]
                      /\ NextOf(NextOf(ps[i], dir, H), 0 - dir, H) = ps[i]
                      /\ NextOf(ps[i], dir + N, H) = NextOf(ps[i], dir, H)
                /\ NextOf(ps[i], N, H) = ps[i]
                /\ \E R \in {[j \in 0..N |-> IF j = 0 THEN ps[i] ELSE ps[Rotate(i, j, N)]]} :
                      /\ \A j \in 1..N : R[j] = NextOf(R[j - 1], 1, H)
                      /\ R[N] = ps[i]
                /\ OtherOf(ps[i], H) =
                      ps[CHOOSE j \in 1..N : ps[j] # ps[i] /\ \A k \in 1..(j - 1) : ps[k] = ps[i]]

\* with three players and the direction reversed, the turn went from the
\* first player back round to the last
C27_TurnWrappedBackwards ==
    /\ game = "shed3" /\ pc = "running"
    /\ last.op = "card" /\ last.ok /\ DirectionOf(heap[live]) = 0 - 1
    /\ heap[live].current_player = PlayerV(heap[live].players[3])

-----------------------------------------------------------------------------
(* Properties of the bindings of a segment.                                *)

\* "start.x", "target.y", "eq(target.y, 0)"
SegmentTexts ==
    {<<"start", ".", "x">>, <<"target", ".", "y">>,
     <<"eq", "(", "target", ".", "y", ",", " ", "0", ")">>}

\* C29: for a segment from a piece's cell to any cell, an expression over
\* start and target has the same value in the context the effects of the
\* segment get, before any effect has run, as in the context its conditions get.
C29_EffectsSeeStartAndTargetAsConditionsDo ==
    GridRunning =>
        \A c \in DOMAIN heap[live].board : \A target \in Positions(game) :
            \A expr \in SegmentTexts :
                LET H == [heap |-> heap, ev |-> live, raised |-> FALSE]
                    entity == EntV(live, heap[live].board[c].id)
                IN  Eval(ParseExpr(expr), EffectContext(entity, c, target, live), H)
                    = Eval(ParseExpr(expr), ConditionContext(entity, c, target, live), H)

-----------------------------------------------------------------------------
(* Properties of the validation of a segment.                              *)

\* C21: evaluating a condition never ends in an error, an ordering comparison
\* of a string and an integer included: the loop of run_grid_game never stops
\* on an exception out of process_move_path, and the evaluator reads the live
\* state once the call is over.
C21_ConditionsNeverRaise ==
    heap[live].topology = "grid" => (pc # "crashed" /\ ev = live)

\* C30: a path is accepted only on the strength of actions defined in
\* interactions.list: every segment of a successful process_move_path was
\* resolved to a defined action.
C30_AcceptedOnlyByDefinedActions ==
    (last.op = "move" /\ last.ok) =>
        \A i \in 1..Len(last.names) : last.names[i] \in InteractionNames(game)

-----------------------------------------------------------------------------
(* Properties of scripted mode.                                            *)

\* C28: once a line of the script fails as a move (rejected by
\* process_move_path, no piece at its origin, a position outside the grid,
\* fewer than two positions), the driver is out of scripted mode: no line of
\* the script is left to be executed.
C28_FailedScriptLineEndsScript ==
    [][(/\ GridRunning /\ Truthy(heap[live].current_player)
        /\ script.is_scripted /\ script.moves # <<>>
        /\ pc' = "running" /\ ~last'.ok)
       => ~(script'.is_scripted /\ script'.moves # <<>>)]_vars

-----------------------------------------------------------------------------
(* Further properties of process_card_action.                              *)

\* C31: with a card index given (a play, not the draw input 0),
\* process_card_action never succeeds by performing the action draw_card,
\* also when draw_card is allowed in the phase and its conditions hold.
C31_PlayNeverDraws ==
    CardAsked =>
        \A card_num \in 1..MaxCardNum : \A R \in {CardResult(card_num)} :
            ~(R.ok /\ R.names = <<"draw_card">>)

-----------------------------------------------------------------------------
(* Properties of transfers between zones.                                  *)

RECURSIVE Listed(_, _)
\* the lists of the zones named, one after the other
Listed(st, names) ==
    IF names = <<>> THEN <<>>
    ELSE st.zones[Head(names)].entities \o Listed(st, Tail(names))

\* the entities the zones of st hold
HeldIn(st) ==
    LET all == Listed(st, st.zoneOrder) IN {all[i] : i \in 1..Len(all)}

\* st2 holds in its zones the entities held, each listed once
Holds(st2, held) ==
    \E all \in {Listed(st2, st2.zoneOrder)} :
        /\ {all[i] : i \in 1..Len(all)} = held
        /\ Len(all) = Cardinality(held)

\* the lists of one or two zones a deal can name, the source and a zone
\* named twice included
AnyTargets(st) == UNION {[1..m -> DOMAIN st.zones] : m \in 1..2}

\* C32: transfers between zones neither duplicate nor lose entities.  Every
\* entity held by a zone is listed exactly once, and deal_cards, move_card,
\* the builtin draw_card, the effect draw_cards and move_to_zone of an entity
\* held in a zone leave the zones holding the same entities, each listed
\* once, also with the source as destination and with a count beyond the
\* size of the source.
C32_TransfersConserveEntities ==
    CardRunning =>
        LET st == heap[live]
            H == [heap |-> heap, ev |-> live, raised |-> FALSE]
            S == [st |-> st, next |-> idCounter]
        IN  \E held \in {HeldIn(st)} :
            /\ Holds(st, held)
            /\ \A src \in DOMAIN st.zones : \A n \in 0..MaxCount :
                  /\ \A tos \in AnyTargets(st) :
                        Holds(ExecuteSetupStep(DealCards(src, tos, n), S).st, held)
                  /\ \A dst \in DOMAIN st.zones :
                        /\ Holds(ExecuteSetupStep(MoveCard(src, dst, n), S).st, held)
                        /\ Holds(DrawCardBuiltin(<<ZoneV(live, src), ZoneV(live, dst), IntV(n)>>,
                                                 H).H.heap[live], held)
                        /\ Holds(ApplyEffect(DrawCards(Id("src"), Id("dst"), Lit(IntV(n))),
                                             [src |-> ZoneV(live, src), dst |-> ZoneV(live, dst)],
                                             H).heap[live], held)
            /\ \A id \in held : \A dst \in DOMAIN st.zones :
                  Holds(ApplyEffect(MoveToZone(Id("card"), Id("dst")),
                                    [card |-> EntV(live, id), dst |-> ZoneV(live, dst)],
                                    H).heap[live], held)

\* a card was played from a hand to the discard pile and a card was then
\* drawn from the draw pile, which is left with fewer cards than a draw of
\* MaxCount asks for
C32_PlayedThenDrew ==
    /\ CardRunning /\ last.op = "card" /\ last.ok /\ last.names = <<"draw_card">>
    /\ Len(heap[live].zones["discard_pile"].entities) >= 2
    /\ Len(heap[live].zones["draw_pile"].entities) < MaxCount
    /\ Holds(heap[live], HeldIn(heap[live]))

-----------------------------------------------------------------------------
(* Properties of index expressions.                                        *)

\* "board[mid_pos(start, target)].owner"
MidOwnerText ==
    <<"board", "[", "mid_pos", "(", "start", ",", " ", "target", ")", "]", ".", "owner">>
\* "ne(board[mid_pos(start, target)].owner, entity.owner)"
MidOwnerDiffersText ==
    <<"ne", "(">> \o MidOwnerText \o <<",", " ", "entity", ".", "owner", ")">>
\* the property owner of the element of board at the midpoint
MidOwner ==
    Prop(Index(Id("board"), Call("mid_pos", <<Id("start"), Id("target")>>)), <<"owner">>)

\* C33: an index expression followed by a property chain evaluates to that
\* property of the indexed element: board[mid_pos(start, target)].owner is
\* the owner of the entity at the midpoint, null when the cell is empty, as a
\* whole expression and as an argument of ne(.., entity.owner).
C33_IndexThenPropertyReadsProperty ==
    GridRunning =>
        \A c \in DOMAIN heap[live].board : \A target \in Positions(game) :
            LET H == [heap |-> heap, ev |-> live, raised |-> FALSE]
                ctx == ConditionContext(EntV(live, heap[live].board[c].id), c, target, live)
            IN  /\ Eval(ParseExpr(MidOwnerText), ctx, H) = Eval(MidOwner, ctx, H)
                /\ Eval(ParseExpr(MidOwnerDiffersText), ctx, H)
                   = Eval(Call("ne", <<MidOwner, Prop(Id("entity"), <<"owner">>)>>), ctx, H)
====
